---------------------------- MODULE Spec2Model ----------------------------
(***************************************************************************)
(* The typed radix-tree router of velox_api with its route cache:          *)
(*   lib/utils/validators.js   validateParam, convertParam                 *)
(*   lib/utils/radix-tree.js   RadixNode, RadixTree   (src/unnamed/part_005)*)
(*   lib/utils/cache.js        CacheNode, LRUCache    (src/unnamed/part_005)*)
(*   lib/core/router.js        VeloxRouter                                 *)
(*                                                                         *)
(* A JavaScript string is a sequence of one-character strings, so that     *)
(* splitting, prefix tests, the validators' regular expressions and the    *)
(* cache key concatenation are computed character by character.            *)
(***************************************************************************)
EXTENDS Integers, Sequences, FiniteSets, TLC

VARIABLES tree, treeLog, router, cache, now, routeLog, observed, lru, touched,
          evicted, ret, chain, pipeline, limiter, objectPool

vars ==
    <<tree, treeLog, router, cache, now, routeLog, observed, lru, touched,
      evicted, ret, chain, pipeline, limiter, objectPool>>

-----------------------------------------------------------------------------
(* Characters and strings *)

Digit == {"0", "1", "2", "3", "4", "5", "6", "7", "8", "9"}

Lower == {"a", "b", "c", "d", "e", "f", "g", "h", "i", "j", "k", "l", "m",
          "n", "o", "p", "q", "r", "s", "t", "u", "v", "w", "x", "y", "z"}

Upper == {"A", "B", "C", "D", "E", "F", "G", "H", "I", "J", "K", "L", "M",
          "N", "O", "P", "Q", "R", "S", "T", "U", "V", "W", "X", "Y", "Z"}

HexLower == {"a", "b", "c", "d", "e", "f"}

HexUpper == {"A", "B", "C", "D", "E", "F"}

\* \w of a JavaScript regular expression
WordChar == Digit \cup Lower \cup Upper \cup {"_"}

\* \s of a JavaScript regular expression, as far as it can occur here
SpaceChar == {" "}

\* null and undefined: a value no string equals (strings hold single characters)
Null == <<"null">>

\* the truthiness of a string-or-null value: null and '' are falsy
Truthy(s) == s # Null /\ s # <<>>

AllIn(s, C) == \A i \in 1..Len(s) : s[i] \in C

\* C+ anchored at both ends
Plus(s, C) == Len(s) >= 1 /\ AllIn(s, C)

StartsWith(s, p) == Len(s) >= Len(p) /\ SubSeq(s, 1, Len(p)) = p

\* String.prototype.slice(k) for 0 <= k
Slice(s, k) == SubSeq(s, k + 1, Len(s))

\* the positions of the character c in s
Positions(s, c) == {i \in 1..Len(s) : s[i] = c}

\* String.prototype.split(c) for a one-character separator: the pieces
\* between the separators, empty pieces included
RECURSIVE SplitOn(_, _)
SplitOn(s, c) ==
    IF Positions(s, c) = {} THEN <<s>>
    ELSE LET k == CHOOSE i \in Positions(s, c) : \A j \in Positions(s, c) : i <= j
         IN  <<SubSeq(s, 1, k - 1)>> \o SplitOn(SubSeq(s, k + 1, Len(s)), c)

\* Array.prototype.filter(Boolean) on an array of strings
FilterBoolean(parts) == SelectSeq(parts, LAMBDA p : p # <<>>)

\* String.prototype.toUpperCase on ASCII
UpperOf(c) ==
    CASE c = "a" -> "A" [] c = "b" -> "B" [] c = "c" -> "C" [] c = "d" -> "D"
      [] c = "e" -> "E" [] c = "f" -> "F" [] c = "g" -> "G" [] c = "h" -> "H"
      [] c = "i" -> "I" [] c = "j" -> "J" [] c = "k" -> "K" [] c = "l" -> "L"
      [] c = "m" -> "M" [] c = "n" -> "N" [] c = "o" -> "O" [] c = "p" -> "P"
      [] c = "q" -> "Q" [] c = "r" -> "R" [] c = "s" -> "S" [] c = "t" -> "T"
      [] c = "u" -> "U" [] c = "v" -> "V" [] c = "w" -> "W" [] c = "x" -> "X"
      [] c = "y" -> "Y" [] c = "z" -> "Z" [] OTHER -> c

ToUpperCase(s) == [i \in 1..Len(s) |-> UpperOf(s[i])]

\* String.prototype.replace(/\/+$/, ''): drop every trailing slash
RECURSIVE StripTrailingSlashes(_)
StripTrailingSlashes(s) ==
    IF Len(s) > 0 /\ s[Len(s)] = "/"
    THEN StripTrailingSlashes(SubSeq(s, 1, Len(s) - 1))
    ELSE s

-----------------------------------------------------------------------------
(* lib/utils/validators.js *)

tNumber == <<"n", "u", "m", "b", "e", "r">>
tInt == <<"i", "n", "t">>
tFloat == <<"f", "l", "o", "a", "t">>
tAlpha == <<"a", "l", "p", "h", "a">>
tAlphanumeric == <<"a", "l", "p", "h", "a", "n", "u", "m", "e", "r", "i", "c">>
tUuid == <<"u", "u", "i", "d">>
tEmail == <<"e", "m", "a", "i", "l">>
tUrl == <<"u", "r", "l">>
tSlug == <<"s", "l", "u", "g">>
tDate == <<"d", "a", "t", "e">>
tPhone == <<"p", "h", "o", "n", "e">>
tIp == <<"i", "p">>
tHex == <<"h", "e", "x">>
tVersion == <<"v", "e", "r", "s", "i", "o", "n">>
tBoolean == <<"b", "o", "o", "l", "e", "a", "n">>

\* -? at the start of a pattern
DropMinus(s) == IF Len(s) > 0 /\ s[1] = "-" THEN Tail(s) ELSE s

\* /^-?\d+$/
ReInt(s) == Plus(DropMinus(s), Digit)

\* /^-?\d+\.\d+$/
ReFloat(s) ==
    LET t == DropMinus(s)
    IN  \E k \in 1..Len(t) :
            /\ t[k] = "."
            /\ Plus(SubSeq(t, 1, k - 1), Digit)
            /\ Plus(SubSeq(t, k + 1, Len(t)), Digit)

\* /^-?\d+(\.\d+)?$/
ReNumber(s) == ReInt(s) \/ ReFloat(s)

\* /^[a-zA-Z]+$/
ReAlpha(s) == Plus(s, Lower \cup Upper)

\* /^[a-zA-Z0-9]+$/
ReAlphanumeric(s) == Plus(s, Lower \cup Upper \cup Digit)

\* /^[0-9a-f]{8}-[0-9a-f]{4}-[0-9a-f]{4}-[0-9a-f]{4}-[0-9a-f]{12}$/i
ReUuid(s) ==
    /\ Len(s) = 36
    /\ \A i \in 1..36 :
          IF i \in {9, 14, 19, 24} THEN s[i] = "-"
          ELSE s[i] \in Digit \cup HexLower \cup HexUpper

\* [^\s@]+
NoSpaceAt(s) == Len(s) >= 1 /\ \A i \in 1..Len(s) : s[i] \notin SpaceChar \cup {"@"}

\* /^[^\s@]+@[^\s@]+\.[^\s@]+$/
ReEmail(s) ==
    \E a \in 1..Len(s) : \E d \in 1..Len(s) :
        /\ a < d
        /\ s[a] = "@"
        /\ s[d] = "."
        /\ NoSpaceAt(SubSeq(s, 1, a - 1))
        /\ NoSpaceAt(SubSeq(s, a + 1, d - 1))
        /\ NoSpaceAt(SubSeq(s, d + 1, Len(s)))

\* (https?:\/\/)? at the start of the url pattern: the remainders it can leave
UrlRests(s) ==
    {s} \cup {Slice(s, Len(p)) : p \in {q \in {<<"h", "t", "t", "p", ":", "/", "/">>, <<"h", "t", "t", "p", "s", ":", "/", "/">>} : StartsWith(s, q)}}

\* /^(https?:\/\/)?([\da-z\.-]+)\.([a-z\.]{2,6})([\/\w \.-]*)*\/?$/
ReUrl(s) ==
    \E r \in UrlRests(s) : \E d \in 1..Len(r) : \E e \in d..Len(r) :
        /\ r[d] = "."
        /\ Plus(SubSeq(r, 1, d - 1), Digit \cup Lower \cup {".", "-"})
        /\ e - d \in 2..6
        /\ AllIn(SubSeq(r, d + 1, e), Lower \cup {"."})
        /\ AllIn(SubSeq(r, e + 1, Len(r)), WordChar \cup {"/", " ", ".", "-"})

\* /^[a-z0-9]+(?:-[a-z0-9]+)*$/
ReSlug(s) ==
    /\ Plus(s, Lower \cup Digit \cup {"-"})
    /\ s[1] # "-"
    /\ s[Len(s)] # "-"
    /\ \A i \in 1..(Len(s) - 1) : ~(s[i] = "-" /\ s[i + 1] = "-")

\* /^\d{4}-\d{2}-\d{2}$/
ReDate(s) ==
    /\ Len(s) = 10
    /\ \A i \in 1..10 : IF i \in {5, 8} THEN s[i] = "-" ELSE s[i] \in Digit

\* /^\+?\d{1,15}$/
RePhone(s) ==
    LET t == IF Len(s) > 0 /\ s[1] = "+" THEN Tail(s) ELSE s
    IN  Len(t) \in 1..15 /\ AllIn(t, Digit)

\* 25[0-5]|2[0-4]\d|1\d{2}|[1-9]?\d
ReOctet(s) ==
    \/ Len(s) = 3 /\ s[1] = "2" /\ s[2] = "5" /\ s[3] \in {"0", "1", "2", "3", "4", "5"}
    \/ Len(s) = 3 /\ s[1] = "2" /\ s[2] \in {"0", "1", "2", "3", "4"} /\ s[3] \in Digit
    \/ Len(s) = 3 /\ s[1] = "1" /\ s[2] \in Digit /\ s[3] \in Digit
    \/ Len(s) = 2 /\ s[1] \in Digit \ {"0"} /\ s[2] \in Digit
    \/ Len(s) = 1 /\ s[1] \in Digit

\* /^(?:(?:octet)\.){3}(?:octet)$/
ReIp(s) ==
    LET parts == SplitOn(s, ".")
    IN  Len(parts) = 4 /\ \A i \in 1..4 : ReOctet(parts[i])

\* /^[a-fA-F0-9]+$/
ReHex(s) == Plus(s, HexLower \cup HexUpper \cup Digit)

\* /^v\d+$/
ReVersion(s) == Len(s) >= 2 /\ s[1] = "v" /\ AllIn(Tail(s), Digit)

\* /^(true|false|1|0)$/
ReBoolean(s) == s \in {<<"t", "r", "u", "e">>, <<"f", "a", "l", "s", "e">>, <<"1">>, <<"0">>}

\* Object.keys(VALIDATORS), in the order of the object literal
VALIDATOR_TYPES ==
    <<tNumber, tInt, tFloat, tAlpha, tAlphanumeric, tUuid, tEmail, tUrl, tSlug,
      tDate, tPhone, tIp, tHex, tVersion, tBoolean>>

\* Array.prototype.includes
Includes(arr, x) == \E i \in 1..Len(arr) : arr[i] = x

\* VALIDATORS[type].test(value) for a type of the catalog
VALIDATORS(type, value) ==
    CASE type = tNumber -> ReNumber(value)
      [] type = tInt -> ReInt(value)
      [] type = tFloat -> ReFloat(value)
      [] type = tAlpha -> ReAlpha(value)
      [] type = tAlphanumeric -> ReAlphanumeric(value)
      [] type = tUuid -> ReUuid(value)
      [] type = tEmail -> ReEmail(value)
      [] type = tUrl -> ReUrl(value)
      [] type = tSlug -> ReSlug(value)
      [] type = tDate -> ReDate(value)
      [] type = tPhone -> RePhone(value)
      [] type = tIp -> ReIp(value)
      [] type = tHex -> ReHex(value)
      [] type = tVersion -> ReVersion(value)
      [] type = tBoolean -> ReBoolean(value)

\* validateParam(value, type): a type outside the catalog accepts everything
\* the property names an object literal inherits from Object.prototype: a
\* lookup obj[key] with one of them finds the inherited value, which is
\* neither undefined nor a RegExp nor a RadixTree
ObjectPrototypeKeys ==
    {<<"c", "o", "n", "s", "t", "r", "u", "c", "t", "o", "r">>, <<"t", "o", "S", "t", "r", "i", "n", "g">>, <<"v", "a", "l", "u", "e", "O", "f">>, <<"h", "a", "s", "O", "w", "n", "P", "r", "o", "p", "e", "r", "t", "y">>, <<"i", "s", "P", "r", "o", "t", "o", "t", "y", "p", "e", "O", "f">>,
     <<"p", "r", "o", "p", "e", "r", "t", "y", "I", "s", "E", "n", "u", "m", "e", "r", "a", "b", "l", "e">>, <<"t", "o", "L", "o", "c", "a", "l", "e", "S", "t", "r", "i", "n", "g">>, <<"_", "_", "p", "r", "o", "t", "o", "_", "_">>}

\* obj[key] for an object literal with the own keys given
Lookup(own, key) ==
    IF key \in own THEN "own"
    ELSE IF key \in ObjectPrototypeKeys THEN "inherited" ELSE "undefined"

\* validateParam(value, type) throws: VALIDATORS[type] is an inherited value,
\* so the validator is truthy and validator.test is not a function
validateParamThrows(type) ==
    Lookup({VALIDATOR_TYPES[i] : i \in 1..Len(VALIDATOR_TYPES)}, type) = "inherited"

\* validateParam(value, type), when it returns
validateParam(value, type) ==
    IF ~Includes(VALIDATOR_TYPES, type) THEN TRUE ELSE VALIDATORS(type, value)

\* the values a route parameter can be bound to: a string, a number (held
\* as its canonical decimal numeral) or a boolean
StrVal(s) == [t |-> "string", v |-> s]

NumVal(s) == [t |-> "number", v |-> s]

BoolVal(b) == [t |-> "boolean", v |-> IF b THEN <<"t", "r", "u", "e">> ELSE <<"f", "a", "l", "s", "e">>]

RECURSIVE DropLeadingZeros(_)
DropLeadingZeros(s) ==
    IF Len(s) > 1 /\ s[1] = "0" THEN DropLeadingZeros(Tail(s)) ELSE s

RECURSIVE DropTrailingZeros(_)
DropTrailingZeros(s) ==
    IF Len(s) > 0 /\ s[Len(s)] = "0"
    THEN DropTrailingZeros(SubSeq(s, 1, Len(s) - 1))
    ELSE s

\* Number(value) for a decimal numeral: the number it denotes, so that
\* '42', '042' and '42.0' convert to the same value; anything else the
\* validators let through converts to NaN
Number(value) ==
    IF ~ReNumber(value) THEN NumVal(<<"N", "a", "N">>)
    ELSE LET digits == SplitOn(DropMinus(value), ".")
             whole  == DropLeadingZeros(digits[1])
             frac   == IF Len(digits) > 1 THEN DropTrailingZeros(digits[2]) ELSE <<>>
         IN  NumVal((IF value[1] = "-" THEN <<"-">> ELSE <<>>)
                    \o whole
                    \o (IF frac = <<>> THEN <<>> ELSE <<".">> \o frac))

\* a convertParam that returns every value as it is
convertParamUnchanged(value, type) == StrVal(value)

\* convertParam(value, type)
convertParam(value, type) ==
    CASE type \in {tNumber, tInt, tFloat} -> Number(value)
      [] type = tBoolean -> BoolVal(value = <<"t", "r", "u", "e">> \/ value = <<"1">>)
      [] OTHER -> StrVal(value)

-----------------------------------------------------------------------------
(* lib/utils/radix-tree.js: RadixNode and RadixTree *)

\* A handler is an opaque function: a route's own handler (fn), or the
\* wrapper addRoute builds around the middleware mw and the final handler fn.
Fn(h) == [wrapped |-> FALSE, mw |-> <<>>, fn |-> h]

NoHandler == Fn("null")

\* new RadixNode(prefix, isWildcard, paramName, paramType).  children is the
\* Map's key order; the child under key k of the node at path n is the node
\* at path Append(n, k).
RadixNode(prefix, isWildcard, paramName, paramType) ==
    [prefix |-> prefix, children |-> <<>>, handler |-> NoHandler,
     isWildcard |-> isWildcard, paramName |-> paramName,
     paramType |-> paramType, isEndpoint |-> FALSE]

Root == <<>>

\* new RadixTree(): the nodes by their path of keys from the root, and the
\* staticRoutes map
EmptyTree ==
    [nodes |-> (Root :> RadixNode(<<>>, FALSE, Null, Null)),
     staticRoutes |-> <<>>]

\* an empty params object
NoParams == <<>>

\* what search and find return: null, or an object {handler, params}
NullResult ==
    [found |-> FALSE, threw |-> FALSE, handler |-> NoHandler, params |-> NoParams]

Match(handler, params) ==
    [found |-> TRUE, threw |-> FALSE, handler |-> handler, params |-> params]

\* the call did not return: a TypeError left it
Thrown ==
    [found |-> FALSE, threw |-> TRUE, handler |-> NoHandler, params |-> NoParams]

\* _parsePathSegments(path)
ParsePathSegments(path) ==
    LET parts == FilterBoolean(SplitOn(path, "/"))
    IN  [k \in 1..Len(parts) |->
            IF parts[k][1] = ":"
            THEN LET paramParts == SplitOn(Slice(parts[k], 1), "=")
                 IN  [isParam |-> TRUE,
                      name |-> paramParts[1],
                      type |-> IF Len(paramParts) > 1 THEN paramParts[2] ELSE Null,
                      value |-> parts[k]]
            ELSE [isParam |-> FALSE, name |-> Null, type |-> Null, value |-> parts[k]]]

\* the key insert files a new parameter child under
ParamKey(segment) ==
    IF Truthy(segment.type)
    THEN <<":">> \o segment.name \o <<"=">> \o segment.type
    ELSE <<":">> \o segment.name

\* node.children.set(key, child) for a new child: a new key goes to the end
\* of the Map; an existing key keeps its place and its old child, with
\* everything below it, is no longer part of the tree
SetChild(nodes, n, key, child) ==
    LET c    == Append(n, key)
        kept == {m \in DOMAIN nodes : ~StartsWith(m, c)}
    IN  [m \in kept \cup {c} |->
            IF m = c THEN child
            ELSE IF m = n /\ ~Includes(nodes[n].children, key)
                 THEN [nodes[n] EXCEPT !.children = Append(@, key)]
                 ELSE nodes[m]]

\* the loop of insert at one parameter segment: the first child, in Map
\* order, that is a parameter child of the same name and type
FindParamChild(nodes, n, segment) ==
    LET hits == {i \in 1..Len(nodes[n].children) :
                    LET child == nodes[Append(n, nodes[n].children[i])]
                    IN  /\ child.isWildcard
                        /\ child.paramName = segment.name
                        /\ child.paramType = segment.type}
    IN  IF hits = {} THEN Null
        ELSE nodes[n].children[CHOOSE i \in hits : \A j \in hits : i <= j]

\* the for loop of insert from segment i on: the nodes it leaves and the
\* node it ends at
RECURSIVE InsertWalk(_, _, _, _)
InsertWalk(nodes, n, segments, i) ==
    IF i > Len(segments) THEN [nodes |-> nodes, node |-> n]
    ELSE LET segment == segments[i]
         IN  IF segment.isParam
             THEN LET found == FindParamChild(nodes, n, segment)
                      key   == ParamKey(segment)
                  IN  IF found # Null
                      THEN InsertWalk(nodes, Append(n, found), segments, i + 1)
                      ELSE InsertWalk(
                               SetChild(nodes, n, key,
                                        RadixNode(key, TRUE, segment.name, segment.type)),
                               Append(n, key), segments, i + 1)
             ELSE IF ~Includes(nodes[n].children, segment.value)
                  THEN InsertWalk(
                           SetChild(nodes, n, segment.value,
                                    RadixNode(segment.value, FALSE, Null, Null)),
                           Append(n, segment.value), segments, i + 1)
                  ELSE InsertWalk(nodes, Append(n, segment.value), segments, i + 1)

\* Map.prototype.set on a map held as a function
MapSet(map, key, value) ==
    [k \in DOMAIN map \cup {key} |-> IF k = key THEN value ELSE map[k]]

\* insert(path, handler)
Insert(t, path, handler) ==
    LET segments == ParsePathSegments(path)
    IN  IF \A k \in 1..Len(segments) : ~segments[k].isParam
        THEN [t EXCEPT !.staticRoutes = MapSet(@, path, Match(handler, NoParams))]
        ELSE LET w == InsertWalk(t.nodes, Root, segments, 1)
             IN  [t EXCEPT !.nodes =
                     [w.nodes EXCEPT ![w.node].isEndpoint = TRUE,
                                     ![w.node].handler = handler]]

\* the parameter children of a node in the order _searchNode tries them:
\* the comparator puts the children whose type has a validator first, and
\* Array.prototype.sort is stable
WildcardChildren(nodes, n) ==
    LET all == SelectSeq(nodes[n].children, LAMBDA k : nodes[Append(n, k)].isWildcard)
        HasValidator(k) ==
            LET a == nodes[Append(n, k)]
            IN  Truthy(a.paramType) /\ Includes(VALIDATOR_TYPES, a.paramType)
    IN  SelectSeq(all, HasValidator) \o SelectSeq(all, LAMBDA k : ~HasValidator(k))

\* { ...params } with params[name] assigned
Bind(params, name, value) ==
    [k \in DOMAIN params \cup {name} |-> IF k = name THEN value ELSE params[k]]

\* _searchNode(node, segments, index, params); index counts from 1 here
RECURSIVE SearchNode(_, _, _, _, _)
RECURSIVE SearchWildcards(_, _, _, _, _, _, _)
\* a walk that tries the parameter children before the child of the
\* segment's own text
SearchNodeParamsFirst(nodes, n, segments, index, params) ==
    IF index = Len(segments) + 1
    THEN IF nodes[n].isEndpoint THEN Match(nodes[n].handler, params) ELSE NullResult
    ELSE LET segment == segments[index]
             wild    == SearchWildcards(nodes, n, segments, index, params,
                                        WildcardChildren(nodes, n), 1)
         IN  IF wild.found \/ wild.threw THEN wild
             ELSE IF Includes(nodes[n].children, segment)
                  THEN SearchNode(nodes, Append(n, segment), segments, index + 1, params)
                  ELSE NullResult

SearchNode(nodes, n, segments, index, params) ==
    IF index = Len(segments) + 1
    THEN IF nodes[n].isEndpoint THEN Match(nodes[n].handler, params) ELSE NullResult
    ELSE LET segment == segments[index]
             exact   == IF Includes(nodes[n].children, segment)
                        THEN SearchNode(nodes, Append(n, segment), segments, index + 1, params)
                        ELSE NullResult
         IN  IF exact.found \/ exact.threw THEN exact
             ELSE SearchWildcards(nodes, n, segments, index, params,
                                  WildcardChildren(nodes, n), 1)

\* the loop with one params map for all the children: a binding stays when
\* its branch is given up
SearchWildcardsSharingParams(nodes, n, segments, index, params, wildcardChildren, j) ==
    IF j > Len(wildcardChildren) THEN NullResult
    ELSE LET child   == nodes[Append(n, wildcardChildren[j])]
             segment == segments[index]
         IN  IF Truthy(child.paramType) /\ validateParamThrows(child.paramType)
             THEN Thrown
             ELSE IF Truthy(child.paramType) /\ ~validateParam(segment, child.paramType)
             THEN SearchWildcards(nodes, n, segments, index, params, wildcardChildren, j + 1)
             ELSE LET newParams == Bind(params, child.paramName,
                                        convertParam(segment, child.paramType))
                      result == SearchNode(nodes, Append(n, wildcardChildren[j]),
                                           segments, index + 1, newParams)
                  IN  IF result.found \/ result.threw THEN result
                      ELSE SearchWildcards(nodes, n, segments, index, newParams,
                                           wildcardChildren, j + 1)

\* the for loop of _searchNode over the sorted parameter children, from the
\* j-th on
SearchWildcards(nodes, n, segments, index, params, wildcardChildren, j) ==
    IF j > Len(wildcardChildren) THEN NullResult
    ELSE LET child   == nodes[Append(n, wildcardChildren[j])]
             segment == segments[index]
         IN  IF Truthy(child.paramType) /\ validateParamThrows(child.paramType)
             THEN Thrown
             ELSE IF Truthy(child.paramType) /\ ~validateParam(segment, child.paramType)
             THEN SearchWildcards(nodes, n, segments, index, params, wildcardChildren, j + 1)
             ELSE LET newParams == Bind(params, child.paramName,
                                        convertParam(segment, child.paramType))
                      result == SearchNode(nodes, Append(n, wildcardChildren[j]),
                                           segments, index + 1, newParams)
                  IN  IF result.found \/ result.threw THEN result
                      ELSE SearchWildcards(nodes, n, segments, index, params,
                                           wildcardChildren, j + 1)

\* a search without the lookup in staticRoutes
SearchTrieOnly(t, path) ==
    SearchNode(t.nodes, Root, FilterBoolean(SplitOn(path, "/")), 1, NoParams)

\* search(path)
Search(t, path) ==
    IF path \in DOMAIN t.staticRoutes
    THEN t.staticRoutes[path]
    ELSE SearchNode(t.nodes, Root, FilterBoolean(SplitOn(path, "/")), 1, NoParams)

-----------------------------------------------------------------------------
(* lib/utils/cache.js: CacheNode and LRUCache *)

\* new CacheNode(key, value) at time t.  prev and next refer to other nodes
\* by their key: the Map holds one node per key.
CacheNode(key, value, t) ==
    [key |-> key, value |-> value, prev |-> Null, next |-> Null, timestamp |-> t]

\* new LRUCache(maxSize, ttl); a ttl of 0 stands for null (both are falsy)
LRUCache(maxSize, ttl) ==
    [maxSize |-> maxSize, ttl |-> ttl, cache |-> <<>>,
     head |-> Null, tail |-> Null, size |-> 0]

\* _removeNode(node), node given by its key
RemoveNode(c, key) ==
    LET node == c.cache[key]
        c1 == IF node.prev # Null
              THEN [c EXCEPT !.cache[node.prev].next = node.next]
              ELSE [c EXCEPT !.head = node.next]
    IN  IF node.next # Null
        THEN [c1 EXCEPT !.cache[node.next].prev = node.prev]
        ELSE [c1 EXCEPT !.tail = node.prev]

\* an _addToHead that does not point the old head back at the node
AddToHeadOneWay(c, key) ==
    LET c1 == [c EXCEPT !.cache[key].next = c.head, !.cache[key].prev = Null]
        c3 == [c1 EXCEPT !.head = key]
    IN  IF c.tail = Null THEN [c3 EXCEPT !.tail = key] ELSE c3

\* _addToHead(node), node given by its key
AddToHead(c, key) ==
    LET c1 == [c EXCEPT !.cache[key].next = c.head, !.cache[key].prev = Null]
        c2 == IF c.head # Null THEN [c1 EXCEPT !.cache[c.head].prev = key] ELSE c1
        c3 == [c2 EXCEPT !.head = key]
    IN  IF c.tail = Null THEN [c3 EXCEPT !.tail = key] ELSE c3

\* a _moveToHead that leaves the node where it is
LeftInPlace(c, key) == c

\* _moveToHead(node)
MoveToHead(c, key) == AddToHead(RemoveNode(c, key), key)

\* Map.prototype.delete on a map held as a function
MapDelete(map, key) == [k \in DOMAIN map \ {key} |-> map[k]]

\* a delete that leaves the size as it is
CacheDeleteKeepingSize(c, key) ==
    IF key \notin DOMAIN c.cache THEN c
    ELSE LET c1 == RemoveNode(c, key)
         IN  [c1 EXCEPT !.cache = MapDelete(@, key)]

\* delete(key): the cache it leaves
CacheDelete(c, key) ==
    IF key \notin DOMAIN c.cache THEN c
    ELSE LET c1 == RemoveNode(c, key)
         IN  [c1 EXCEPT !.cache = MapDelete(@, key), !.size = @ - 1]

\* the value get returns on a miss
Undefined ==
    [found |-> FALSE, threw |-> FALSE, handler |-> NoHandler, params |-> NoParams]

\* a get without the test of the entry's age
CacheGetAtAnyAge(c, key, t) ==
    IF key \notin DOMAIN c.cache
    THEN [cache |-> c, hit |-> FALSE, value |-> Undefined]
    ELSE [cache |-> MoveToHead(c, key), hit |-> TRUE, value |-> c.cache[key].value]

\* a get that stamps the entry it returns
CacheGetRefreshing(c, key, t) ==
    IF key \notin DOMAIN c.cache
    THEN [cache |-> c, hit |-> FALSE, value |-> Undefined]
    ELSE IF c.ttl # 0 /\ t - c.cache[key].timestamp > c.ttl
         THEN [cache |-> CacheDelete(c, key), hit |-> FALSE, value |-> Undefined]
         ELSE [cache |-> MoveToHead([c EXCEPT !.cache[key].timestamp = t], key),
               hit |-> TRUE, value |-> c.cache[key].value]

\* get(key) at time t: the cache it leaves and the value it returns
CacheGet(c, key, t) ==
    IF key \notin DOMAIN c.cache
    THEN [cache |-> c, hit |-> FALSE, value |-> Undefined]
    ELSE IF c.ttl # 0 /\ t - c.cache[key].timestamp > c.ttl
         THEN [cache |-> CacheDelete(c, key), hit |-> FALSE, value |-> Undefined]
         ELSE [cache |-> MoveToHead(c, key), hit |-> TRUE, value |-> c.cache[key].value]

\* a set without the eviction at capacity
CacheSetKeepingAll(c, key, value, t) ==
    IF key \in DOMAIN c.cache
    THEN MoveToHead([c EXCEPT !.cache[key].value = value,
                              !.cache[key].timestamp = t], key)
    ELSE LET c1 == [c EXCEPT !.cache = MapSet(@, key, CacheNode(key, value, t))]
         IN  [AddToHead(c1, key) EXCEPT !.size = @ + 1]

\* set(key, value) at time t: the cache it leaves
CacheSet(c, key, value, t) ==
    IF key \in DOMAIN c.cache
    THEN MoveToHead([c EXCEPT !.cache[key].value = value,
                              !.cache[key].timestamp = t], key)
    ELSE LET c1 == [c EXCEPT !.cache = MapSet(@, key, CacheNode(key, value, t))]
             c2 == [AddToHead(c1, key) EXCEPT !.size = @ + 1]
         IN  IF c2.size > c2.maxSize
             THEN LET removed == c2.tail
                      c3 == RemoveNode(c2, removed)
                  IN  [c3 EXCEPT !.cache = MapDelete(@, removed), !.size = @ - 1]
             ELSE c2

\* clear(): the cache it leaves
CacheClear(c) ==
    [c EXCEPT !.cache = <<>>, !.head = Null, !.tail = Null, !.size = 0]

-----------------------------------------------------------------------------
(* lib/core/router.js: VeloxRouter *)

GET == <<"G", "E", "T">>
POST == <<"P", "O", "S", "T">>
PUT == <<"P", "U", "T">>
DELETE == <<"D", "E", "L", "E", "T", "E">>
PATCH == <<"P", "A", "T", "C", "H">>
HEAD == <<"H", "E", "A", "D">>
OPTIONS == <<"O", "P", "T", "I", "O", "N", "S">>

SupportedMethods == {GET, POST, PUT, DELETE, PATCH, HEAD, OPTIONS}

\* the capacity and the time to live (in clock ticks) of the router's route
\* cache; the constructor passes 1000 and 5 * 60 * 1000 ms
CacheMaxSize == 2

CacheTtl == 1

\* the constructor: one empty tree per method, no prefix
NewRouter == [trees |-> [m \in SupportedMethods |-> EmptyTree], prefix |-> <<>>]

\* the handler addRoute inserts for handlers = <<m1, ..., mk, final>>
RouteHandler(handlers) ==
    IF Len(handlers) = 1 THEN Fn(handlers[1])
    ELSE [wrapped |-> TRUE,
          mw |-> SubSeq(handlers, 1, Len(handlers) - 1),
          fn |-> handlers[Len(handlers)]]

\* this.prefix + path.replace(/\/+$/, '') || '/'
FullPath(prefix, path) ==
    LET p == prefix \o StripTrailingSlashes(path)
    IN  IF p = <<>> THEN <<"/">> ELSE p

\* a cache key without the method
CacheKeyOfPath(method, path) == path

\* `${method}:${path}`
CacheKey(method, path) == method \o <<":">> \o path

-----------------------------------------------------------------------------
(* The inputs *)

\* the number of insert calls on the tree, and of successful addRoute calls
\* on the router
MaxInserts == 3

MaxRoutes == 2

\* the last reading of the clock
MaxTime == 2

Handlers == {"H1", "H2"}

\* the patterns inserted into the RadixTree
TreePatterns ==
    {<<"/", "u", "/", ":", "i", "=", "n", "u", "m", "b", "e", "r">>, <<"/", "u", "/", ":", "i", "=", "i", "n", "t">>, <<"/", "u", "/", ":", "i", "=", "s", "t", "r", "i", "n", "g">>, <<"/", "u", "/", ":", "i", "=", "i", "n", "t", "/", "p">>, <<"/", "u", "/", ":", "n", "/", "q">>,
     <<"/", "u", "/", "m", "e">>, <<"/", "s", "/", ":", "e", "=", "b", "o", "o", "l", "e", "a", "n">>}

\* the paths searched in the RadixTree
TreePaths ==
    {<<"/", "u", "/", "4", "2">>, <<"/", "u", "/", "4", ".", "5">>, <<"/", "u", "/", "b", "o", "b">>, <<"/", "u", "/", "m", "e">>, <<"/", "u", "/", ":", "i", "=", "s", "t", "r", "i", "n", "g">>, <<"/", "u", "/", ":", "i", "=", "i", "n", "t">>,
     <<"/", "u", "/", "4", "2", "/", "p">>, <<"/", "u", "/", "4", "2", "/", "q">>, <<"/", "s", "/", "t", "r", "u", "e">>, <<"/", "s", "/", "m", "a", "y", "b", "e">>, <<"/", "x">>}

\* the methods, paths and handler lists passed to addRoute
RouteMethods == {<<"g", "e", "t">>, <<"T", "R", "A", "C", "E">>}

RoutePaths == {<<"/", "h", "/">>, <<"/", "u", "/", ":", "i", "=", "i", "n", "t", "/">>, <<"/", "f", "/", "*">>}

HandlerLists == {<<"H1">>, <<"M1", "H2">>}

\* the methods and paths passed to find
FindMethods == {GET, POST, <<"T", "R", "A", "C", "E">>}

FindPaths ==
    {<<"/", "h">>, <<"/", "h", "/">>, <<"/", "u", "/", "4", "2">>, <<"/", "u", "/", "4", "2", "/">>, <<"/", "u", "/", ":", "i", "=", "i", "n", "t", "/">>, <<"/", "f", "/", "d">>, <<"/", "f", "/", "d", "/", "e">>}

-----------------------------------------------------------------------------
(* lib/core/router.js: the handler addRoute wraps around route middleware *)

\* the longest list of middleware of a route
MaxMiddleware == 3

\* what a middleware does with the next it is given: how often it calls it
\* before it returns
MiddlewareKinds == {"callsNext", "returns", "callsNextTwice"}

NextCalls(mw) ==
    CASE mw = "callsNext" -> 1
      [] mw = "callsNextTwice" -> 2
      [] OTHER -> 0

\* the handler lists middleware..., final handler
RECURSIVE ListsOf(_, _)
ListsOf(S, n) ==
    IF n = 0 THEN {<<>>}
    ELSE LET shorter == ListsOf(S, n - 1)
         IN  shorter \cup {Append(l, x) : l \in {s \in shorter : Len(s) = n - 1}, x \in S}

ChainHandlerLists ==
    {Append(l, "H1") : l \in ListsOf(MiddlewareKinds, MaxMiddleware) \ {<<>>}}

\* one run of wrappedHandler: its middleware and finalHandler, the index its
\* next closes over, the middleware that are running (the innermost last,
\* with the calls of next each still makes), and what the run did so far:
\* the handlers started in order (0 is the final handler), the middleware
\* that called next and those that returned
NoChain ==
    [mw |-> <<>>, fn |-> Null, index |-> 0, stack |-> <<>>, started |-> <<>>,
     calledNext |-> {}, returned |-> {}]

\* next(): the final handler, run to its end, when the middleware are used
\* up; the next middleware otherwise, entered
CallNext(c) ==
    IF c.index >= Len(c.mw)
    THEN [c EXCEPT !.started = Append(@, 0)]
    ELSE [c EXCEPT !.index = @ + 1,
                   !.started = Append(@, c.index + 1),
                   !.stack = Append(@, [mw |-> c.index + 1,
                                        left |-> NextCalls(c.mw[c.index + 1])])]

-----------------------------------------------------------------------------
(* lib/core/router.js: use, _parseMiddlewareMetadata, executeMiddlewares *)

\* the longest list of middleware a router is given
MaxUse == 2

ALL == <<"A", "L", "L">>

\* the longest prefix of s with characters of C
RECURSIVE LeadingRun(_, _)
LeadingRun(s, C) ==
    IF Len(s) > 0 /\ s[1] \in C THEN <<s[1]>> \o LeadingRun(Tail(s), C) ELSE <<>>

\* String.prototype.trim
RECURSIVE Trim(_)
Trim(s) ==
    IF Len(s) > 0 /\ s[1] \in SpaceChar THEN Trim(Tail(s))
    ELSE IF Len(s) > 0 /\ s[Len(s)] \in SpaceChar THEN Trim(SubSeq(s, 1, Len(s) - 1))
    ELSE s

\* \s+([\w\s,]+) matched against the start of s: the group, or Null.  The
\* \s+ takes all the leading white space, and gives one back when nothing
\* else is left for the group
SpaceThenList(s) ==
    LET run  == LeadingRun(s, WordChar \cup SpaceChar \cup {","})
        lead == LeadingRun(run, SpaceChar)
    IN  IF Len(lead) = 0 \/ Len(run) < 2 THEN Null
        ELSE IF Len(lead) = Len(run) THEN <<run[Len(run)]>>
        ELSE Slice(run, Len(lead))

\* the positions behind the occurrences of a word in s, letter case ignored
Behind(s, word) ==
    {i + Len(word) : i \in {j \in 1..Len(s) :
                              StartsWith(ToUpperCase(Slice(s, j - 1)), ToUpperCase(word))}}

\* source.match(/@method\s+([\w\s,]+)/i): the group of the first match, or
\* Null
MethodMatch(source) ==
    LET at == {k \in Behind(source, <<"@", "m", "e", "t", "h", "o", "d">>) : SpaceThenList(Slice(source, k - 1)) # Null}
    IN  IF at = {} THEN Null
        ELSE SpaceThenList(Slice(source, (CHOOSE k \in at : \A j \in at : k <= j) - 1))

\* source.match(/@secure\s+(HTTPS|true)/i) is not null
SecureMatch(source) ==
    \E k \in Behind(source, <<"@", "s", "e", "c", "u", "r", "e">>) :
        LET rest == Slice(source, k - 1)
            lead == LeadingRun(rest, SpaceChar)
            word == ToUpperCase(Slice(rest, Len(lead)))
        IN  /\ Len(lead) > 0
            /\ StartsWith(word, <<"H", "T", "T", "P", "S">>) \/ StartsWith(word, <<"T", "R", "U", "E">>)

\* _parseMiddlewareMetadata(handler), for a handler with this source text
ParseMiddlewareMetadata(handler) ==
    LET methodMatch == MethodMatch(handler.source)
        pieces == IF methodMatch = Null THEN <<>> ELSE SplitOn(methodMatch, ",")
    IN  [methods |-> IF methodMatch = Null THEN <<ALL>>
                     ELSE FilterBoolean([i \in 1..Len(pieces) |->
                                            ToUpperCase(Trim(pieces[i]))]),
         secure |-> SecureMatch(handler.source)]

\* the arguments of use: a string, a function (with the text toString gives
\* and the number of its parameters), or none
StringArg(text) == [type |-> "string", text |-> text, name |-> "", arity |-> 0]

FunctionArg(name, source, arity) ==
    [type |-> "function", text |-> source, name |-> name, arity |-> arity]

NoArg == [type |-> "undefined", text |-> <<>>, name |-> "", arity |-> 0]

\* a middleware that calls the next it gets as fifth argument; one with the
\* annotation in a comment of its body; and postLogger of learn/04-middleware.md,
\* which takes next as sixth parameter
plainLogger == FunctionArg("plainLogger", <<"n", "=", ">", "n", "(", ")">>, 5)

annotatedLogger == FunctionArg("annotatedLogger", <<"n", "=", ">", "/", "*", "@", "m", "e", "t", "h", "o", "d", " ", "P", "O", "S", "T", "*", "/", "n", "(", ")">>, 5)

postLogger == FunctionArg("postLogger", <<"(", "d", ",", "n", ")", "=", ">", "n", "(", ")">>, 6)

MethodPost == StringArg(<<"@", "m", "e", "t", "h", "o", "d", " ", "P", "O", "S", "T">>)

\* the calls of use
UseCalls ==
    {<<plainLogger, NoArg>>, <<annotatedLogger, NoArg>>, <<postLogger, MethodPost>>,
     <<plainLogger, MethodPost>>, <<StringArg(<<"/", "u", "s", "e", "r", "s">>), plainLogger>>}

\* the router's middleware list, and what the last request did: the
\* middleware invoked, by their place in the list, whether the route's
\* handler ran, and the status sent otherwise (0: none)
NoPipeline ==
    [middlewares |-> <<>>, method |-> Null, url |-> Null, matched |-> FALSE,
     invoked |-> <<>>, final |-> FALSE, status |-> 0]

\* executeMiddlewares without the try around the middleware: the request
\* goes on behind a middleware that threw
RECURSIVE ExecuteNextPastThrow(_, _, _, _, _, _)
ExecuteNextPastThrow(middlewares, index, method, url, isSecure, invoked) ==
    IF index >= Len(middlewares)
    THEN [invoked |-> invoked, final |-> TRUE, status |-> 0]
    ELSE LET middleware == middlewares[index + 1]
         IN  IF \/ ~StartsWith(url, middleware.path)
                \/ ~Includes(middleware.methods, method) /\ ~Includes(middleware.methods, ALL)
                \/ middleware.secure /\ ~isSecure
             THEN ExecuteNextPastThrow(middlewares, index + 1, method, url, isSecure, invoked)
             ELSE ExecuteNextPastThrow(middlewares, index + 1, method, url, isSecure,
                                       Append(invoked, index + 1))

\* next() of executeMiddlewares with index middleware used up; a handler
\* with next as fifth parameter calls it, one that expects it as sixth
\* calls undefined, and the TypeError is answered with 500
RECURSIVE ExecuteNext(_, _, _, _, _, _)
ExecuteNext(middlewares, index, method, url, isSecure, invoked) ==
    IF index >= Len(middlewares)
    THEN [invoked |-> invoked, final |-> TRUE, status |-> 0]
    ELSE LET middleware == middlewares[index + 1]
         IN  IF ~StartsWith(url, middleware.path)
             THEN ExecuteNext(middlewares, index + 1, method, url, isSecure, invoked)
             ELSE IF ~Includes(middleware.methods, method) /\ ~Includes(middleware.methods, ALL)
             THEN ExecuteNext(middlewares, index + 1, method, url, isSecure, invoked)
             ELSE IF middleware.secure /\ ~isSecure
             THEN ExecuteNext(middlewares, index + 1, method, url, isSecure, invoked)
             ELSE IF middleware.handler.arity = 5
             THEN ExecuteNext(middlewares, index + 1, method, url, isSecure,
                              Append(invoked, index + 1))
             ELSE [invoked |-> Append(invoked, index + 1), final |-> FALSE,
                   status |-> 500]

-----------------------------------------------------------------------------
(* lib/middleware/rate-limit.js (src/unnamed/part_006): TokenBucket, rateLimit *)

\* the largest maxRequests option, the windowMs option in ticks of the
\* clock, and the number of requests sent to one middleware
MaxRequestsOption == 2

RateWindow == 2

MaxCalls == 4

\* the default of the statusCode option
DefaultStatusCode == 429

\* the status the custom handler of the calls sends
CustomStatusCode == 503

Smaller(a, b) == IF a <= b THEN a ELSE b

\* new TokenBucket(maxRequests, refillRate) at time t, for refillRate =
\* maxRequests / (windowMs / 1000).  Token counts are fractions with the
\* denominator windowMs: the field tokens holds the count times windowMs,
\* and per holds windowMs, so that one token is `per`.
TokenBucket(maxRequests, windowMs, t) ==
    [capacity |-> maxRequests, per |-> windowMs, tokens |-> maxRequests * windowMs,
     lastRefill |-> t, lastAccess |-> t]

\* refill() at time t: timePassed * refillRate tokens are (t - lastRefill) *
\* capacity / windowMs tokens
Refill(bucket, t) ==
    [bucket EXCEPT
        !.tokens = Smaller(bucket.capacity * bucket.per,
                           bucket.tokens + (t - bucket.lastRefill) * bucket.capacity),
        !.lastRefill = t,
        !.lastAccess = t]

\* a consume that takes the token whether there is one or not
ConsumeUnchecked(bucket, t) ==
    [bucket |-> [Refill(bucket, t) EXCEPT !.tokens = @ - bucket.per], allowed |-> TRUE]

\* consume(1) at time t: the bucket afterwards and the value returned
Consume(bucket, t) ==
    LET refilled == Refill(bucket, t)
    IN  IF refilled.tokens >= refilled.per
        THEN [bucket |-> [refilled EXCEPT !.tokens = @ - refilled.per], allowed |-> TRUE]
        ELSE [bucket |-> refilled, allowed |-> FALSE]

\* the clients that send requests, by the key keyGenerator gives them
RateKeys == {"10.0.0.1", "10.0.0.2"}

\* the options of rateLimit that the calls vary
RateOptions ==
    [maxRequests : 1..MaxRequestsOption,
     handler : {"none", "custom"},
     skipSuccessfulRequests : BOOLEAN,
     skipFailedRequests : BOOLEAN,
     statusCode : {DefaultStatusCode}]

\* what the last call of the middleware did
NoCall == [key |-> "", next |-> FALSE, status |-> 0, custom |-> FALSE]

\* the middleware rateLimit(options) returns: its options, its store of
\* buckets by key, the responses whose end it has wrapped and that have not
\* ended yet, by key; and for reference the number of its calls, the calls
\* per key that called next since the clock last moved, the last call, and
\* the number of TokenBucket objects made per key
NoLimiter ==
    [made |-> FALSE,
     options |-> [maxRequests |-> 1, handler |-> "none", skipSuccessfulRequests |-> FALSE,
                  skipFailedRequests |-> FALSE, statusCode |-> DefaultStatusCode],
     store |-> <<>>,
     wrapped |-> [key \in RateKeys |-> 0],
     calls |-> 0,
     passed |-> [key \in RateKeys |-> [at |-> 0, n |-> 0]],
     last |-> NoCall,
     buckets |-> [key \in RateKeys |-> 0]]

-----------------------------------------------------------------------------
(* lib/utils/object-pool.js (src/unnamed/part_004): ObjectPool *)

\* the largest maxSize a pool is made with, and the number of objects the
\* factory makes
MaxPoolSize == 2

MaxObjects == 3

\* what factory() returns the n-th time, and what reset(obj) leaves of an
\* object
Factory(n) == [id |-> n, state |-> "new"]

Reset(obj) == [obj EXCEPT !.state = "reset"]

\* what the caller makes of an object it has acquired
Used(obj) == [obj EXCEPT !.state = "used"]

\* new ObjectPool(factory, reset, maxSize), with for reference the number of
\* objects made and the last call: its name and whether release stored
NoObjectPool ==
    [made |-> FALSE, maxSize |-> 0, pool |-> <<>>, activeCount |-> 0,
     objects |-> 0, last |-> [op |-> "none", stored |-> FALSE]]

-----------------------------------------------------------------------------
(* The state *)

\* what the last call returned
Ret(op, method, path, threw, result) ==
    [op |-> op, method |-> method, path |-> path, threw |-> threw, result |-> result]

\* no find call is under observation
NotObserved ==
    [set |-> FALSE, method |-> Null, path |-> Null, result |-> NullResult, at |-> 0]

Init ==
    /\ tree = EmptyTree
    /\ treeLog = <<>>
    /\ router = NewRouter
    /\ cache = LRUCache(CacheMaxSize, CacheTtl)
    /\ now = 0
    /\ routeLog = <<>>
    /\ observed = NotObserved
    /\ lru = LRUCache(CacheMaxSize, CacheTtl)
    /\ touched = <<>>
    /\ evicted = Null
    /\ ret = Ret("new", Null, Null, FALSE, NullResult)
    /\ chain = NoChain
    /\ pipeline = NoPipeline
    /\ limiter = NoLimiter
    /\ objectPool = NoObjectPool

routerVars == <<router, cache, now, routeLog, observed>>

treeVars == <<tree, treeLog>>

lruVars == <<lru, touched, evicted>>

partVars == <<chain, pipeline, limiter, objectPool>>

-----------------------------------------------------------------------------
(* A RadixTree on its own *)

\* tree.insert(path, handler); treeLog is the list of the calls made
TreeInsert(path, h) ==
    /\ Len(treeLog) < MaxInserts
    /\ tree' = Insert(tree, path, Fn(h))
    /\ treeLog' = Append(treeLog, [path |-> path, handler |-> Fn(h)])
    /\ ret' = Ret("insert", Null, path, FALSE, NullResult)
    /\ UNCHANGED <<routerVars, lruVars, partVars>>

\* tree.search(path)
TreeSearch(path) ==
    /\ ret' = Ret("search", Null, path, Search(tree, path).threw, Search(tree, path))
    /\ UNCHANGED <<treeVars, partVars, routerVars, lruVars>>

NextTree ==
    \/ \E path \in TreePatterns, h \in Handlers : TreeInsert(path, h)
    \/ \E path \in TreePaths : TreeSearch(path)

SpecTree == Init /\ [][NextTree]_vars

\* a pattern without parameters among parameter routes that accept it
StaticPatterns == {<<"/", "u", "/", "m", "e">>, <<"/", "u", "/", ":", "i", "=", "s", "t", "r", "i", "n", "g">>, <<"/", "u", "/", ":", "n">>}

StaticPaths == {<<"/", "u", "/", "m", "e">>, <<"/", "u", "/", "b", "o", "b">>, <<"/", "u">>}

NextStatic ==
    \/ \E path \in StaticPatterns, h \in Handlers : TreeInsert(path, h)
    \/ \E path \in StaticPaths : TreeSearch(path)

SpecStatic == Init /\ [][NextStatic]_vars

\* sibling parameters of each converted type, of a type that is validated
\* but not converted, of types outside the catalog, and without a type; each
\* has a name of its own
ParamPatterns ==
    {<<"/", "n", "/", ":", "a", "=", "n", "u", "m", "b", "e", "r">>, <<"/", "n", "/", ":", "b", "=", "i", "n", "t">>, <<"/", "n", "/", ":", "c", "=", "f", "l", "o", "a", "t">>, <<"/", "n", "/", ":", "d", "=", "b", "o", "o", "l", "e", "a", "n">>, <<"/", "n", "/", ":", "e", "=", "h", "e", "x">>,
     <<"/", "n", "/", ":", "f", "=", "s", "t", "r", "i", "n", "g">>, <<"/", "n", "/", ":", "g">>, <<"/", "n", "/", ":", "k", "=", "c", "o", "n", "s", "t", "r", "u", "c", "t", "o", "r">>}

ParamPaths ==
    {<<"/", "n", "/", "4", "2">>, <<"/", "n", "/", "4", ".", "5", "0">>, <<"/", "n", "/", "-", "0", "7">>, <<"/", "n", "/", "t", "r", "u", "e">>, <<"/", "n", "/", "f", "a", "l", "s", "e">>, <<"/", "n", "/", "1">>, <<"/", "n", "/", "0">>,
     <<"/", "n", "/", "f", "f">>, <<"/", "n", "/", "x", "-", "y">>}

NextParams ==
    \/ \E path \in ParamPatterns : TreeInsert(path, "H1")
    \/ \E path \in ParamPaths : TreeSearch(path)

SpecParams == Init /\ [][NextParams]_vars

\* routes that branch below one literal: a literal child beside parameter
\* children, parameter children that share a name or a type, and branches
\* that fail at the last segment; one path spells the key of a parameter child
BranchPatterns ==
    {<<"/", "a", "/", ":", "x", "=", "i", "n", "t", "/", "b">>, <<"/", "a", "/", ":", "x", "=", "i", "n", "t", "/", "c">>, <<"/", "a", "/", ":", "x", "/", "b">>, <<"/", "a", "/", ":", "y", "/", "c">>, <<"/", "a", "/", ":", "y", "=", "/", "d">>,
     <<"/", "a", "/", "k", "/", ":", "z", "=", "i", "n", "t">>, <<"/", "a", "/", ":", "u", "/", ":", "v">>, <<"/", "a", "/", ":", "w", "=", "c", "o", "n", "s", "t", "r", "u", "c", "t", "o", "r", "/", "c">>}

BranchPaths == {<<"/", "a", "/", "7", "/", "b">>, <<"/", "a", "/", "7", "/", "c">>, <<"/", "a", "/", "k", "/", "c">>, <<"/", "a", "/", "k", "/", "7">>, <<"/", "a", "/", "k", "/", "b">>, <<"/", "a", "/", "7", "/", "d">>, <<"/", "a", "/", ":", "u", "/", "7">>}

NextBranch ==
    \/ \E path \in BranchPatterns : TreeInsert(path, "H1")
    \/ \E path \in BranchPaths : TreeSearch(path)

SpecBranch == Init /\ [][NextBranch]_vars

-----------------------------------------------------------------------------
(* The router *)

\* an addRoute that makes a tree for a method it has none for
AddRouteAnyMethod(method, path, handlers) ==
    LET m        == ToUpperCase(method)
        fullPath == FullPath(router.prefix, path)
        before   == IF m \in DOMAIN router.trees THEN router.trees[m] ELSE EmptyTree
    IN  /\ Len(routeLog) < MaxRoutes
        /\ router' = [router EXCEPT
               !.trees = MapSet(@, m, Insert(before, fullPath, RouteHandler(handlers)))]
        /\ routeLog' = Append(routeLog,
               [method |-> m, raw |-> path, path |-> fullPath,
                handler |-> RouteHandler(handlers)])
        /\ ret' = Ret("addRoute", method, path, FALSE, NullResult)
        /\ UNCHANGED <<treeVars, partVars, cache, now, observed, lruVars>>

\* addRoute(method, path, ...handlers).  routeLog is the list of the
\* insertions made.  It throws 'Unsupported HTTP method' when
\* this.trees[method] is undefined, and a TypeError when it is an inherited
\* value, which has no insert.
AddRoute(method, path, handlers) ==
    LET m        == ToUpperCase(method)
        fullPath == FullPath(router.prefix, path)
    IN  IF Lookup(DOMAIN router.trees, m) # "own"
        THEN /\ ret' = Ret("addRoute", method, path, TRUE, NullResult)
             /\ UNCHANGED <<treeVars, partVars, routerVars, lruVars>>
        ELSE /\ Len(routeLog) < MaxRoutes
             /\ router' = [router EXCEPT
                    !.trees[m] = Insert(@, fullPath, RouteHandler(handlers))]
             /\ routeLog' = Append(routeLog,
                    [method |-> m, raw |-> path, path |-> fullPath,
                     handler |-> RouteHandler(handlers)])
             /\ ret' = Ret("addRoute", method, path, FALSE, NullResult)
             /\ UNCHANGED <<treeVars, partVars, cache, now, observed, lruVars>>

\* tree.search(path) for tree = this.trees[method]: null when the lookup is
\* undefined, a TypeError when it is an inherited value, which has no search
TreeOfMethod(trees, method, path) ==
    CASE Lookup(DOMAIN trees, method) = "own" -> Search(trees[method], path)
      [] Lookup(DOMAIN trees, method) = "inherited" -> Thrown
      [] OTHER -> NullResult

\* a find without the test `if (result)` before cache.set: it stores what
\* the tree returned, null included
FindCallStoringNull(method, path) ==
    LET cacheKey == CacheKey(method, path)
        cached   == CacheGet(cache, cacheKey, now)
        result   == TreeOfMethod(router.trees, method, path)
    IN  /\ cache' = IF cached.hit \/ result.threw
                    THEN cached.cache
                    ELSE CacheSet(cached.cache, cacheKey, result, now)
        /\ ret' = IF cached.hit
                  THEN Ret("find", method, path, FALSE, cached.value)
                  ELSE Ret("find", method, path, result.threw, result)
        /\ UNCHANGED <<treeVars, partVars, router, now, routeLog, lruVars>>

\* find(method, path)
FindCall(method, path) ==
    LET cacheKey == CacheKey(method, path)
        cached   == CacheGet(cache, cacheKey, now)
        result   == TreeOfMethod(router.trees, method, path)
    IN  /\ cache' = IF cached.hit \/ ~result.found
                    THEN cached.cache
                    ELSE CacheSet(cached.cache, cacheKey, result, now)
        /\ ret' = IF cached.hit
                  THEN Ret("find", method, path, FALSE, cached.value)
                  ELSE Ret("find", method, path, result.threw, result)
        /\ UNCHANGED <<treeVars, partVars, router, now, routeLog, lruVars>>

Find(method, path) == FindCall(method, path) /\ UNCHANGED observed

\* a find call that is kept for comparison with the later ones, with the
\* number of routes registered when it was made
ObserveFind(method, path) ==
    /\ FindCall(method, path)
    /\ observed' = [set |-> TRUE, method |-> method, path |-> path,
                    result |-> ret'.result, at |-> Len(routeLog)]

\* the clock Date.now() reads moves on
Tick ==
    /\ now < MaxTime
    /\ now' = now + 1
    /\ UNCHANGED <<treeVars, partVars, router, cache, routeLog, observed, lruVars, ret>>

Next ==
    \/ \E method \in RouteMethods, path \in RoutePaths, handlers \in HandlerLists :
           AddRoute(method, path, handlers)
    \/ \E method \in FindMethods, path \in FindPaths : Find(method, path)
    \/ Tick

Spec == Init /\ [][Next]_vars

\* the router with one find call under observation, on the routes and paths
\* that share cache entries
ObservedRoutePaths == {<<"/", "h", "/">>, <<"/", "u", "/", ":", "i", "=", "i", "n", "t", "/">>}

ObservedFindPaths == {<<"/", "h">>, <<"/", "u", "/", "4", "2">>}

NextObserved ==
    \/ \E path \in ObservedRoutePaths, handlers \in HandlerLists :
           AddRoute(GET, path, handlers)
    \/ \E path \in ObservedFindPaths : Find(GET, path)
    \/ \E path \in ObservedFindPaths : ObserveFind(GET, path)
    \/ Tick

SpecObserved == Init /\ [][NextObserved]_vars

\* the same with routes that the trie does not keep apart or cannot search:
\* ':i' and ':i=' share a key, and a type named like a member of
\* Object.prototype has no test
LostRoutePaths == {<<"/", "u", "/", ":", "i">>, <<"/", "u", "/", ":", "i", "=", "/", "p">>, <<"/", "u", "/", ":", "k", "=", "c", "o", "n", "s", "t", "r", "u", "c", "t", "o", "r">>}

NextLost ==
    \/ \E path \in LostRoutePaths : AddRoute(GET, path, <<"H1">>)
    \/ Find(GET, <<"/", "u", "/", "x">>)
    \/ ObserveFind(GET, <<"/", "u", "/", "x">>)
    \/ Tick

SpecLost == Init /\ [][NextLost]_vars

\* a search that keeps what it found in the route cache
RouterTreeSearchCaching(method, path) ==
    LET result == Search(router.trees[method], path)
    IN  /\ cache' = IF result.found
                    THEN CacheSet(cache, CacheKey(method, path), result, now)
                    ELSE cache
        /\ ret' = Ret("search", method, path, result.threw, result)
        /\ UNCHANGED <<treeVars, partVars, router, now, routeLog, observed, lruVars>>

\* router.trees[method].search(path): the tree of a router searched without
\* find
RouterTreeSearch(method, path) ==
    LET result == Search(router.trees[method], path)
    IN  /\ ret' = Ret("search", method, path, result.threw, result)
        /\ UNCHANGED <<treeVars, partVars, routerVars, lruVars>>

\* find and search side by side on one router
NextRead ==
    \/ \E path \in ObservedRoutePaths, handlers \in HandlerLists :
           AddRoute(GET, path, handlers)
    \/ \E path \in ObservedFindPaths : Find(GET, path)
    \/ \E path \in ObservedFindPaths : RouterTreeSearch(GET, path)
    \/ Tick

SpecRead == Init /\ [][NextRead]_vars

-----------------------------------------------------------------------------
(* A router whose callers write to the params they get *)

\* what a caller writes into the params of a match, under a name no route
\* declares or under the name of a parameter
Written == StrVal(<<"w">>)

WrittenNames == {<<"w">>, <<"i">>}

\* match.params[name] = value
SetParam(match, name, value) == [match EXCEPT !.params = Bind(@, name, value)]

\* const match = router.find(method, path); match.params[name] = Written.
\* The object find returns is the one the cache holds under the key: the
\* cached one on a hit, the one just stored on a miss.  For a static path
\* the search returns the object insert stored in staticRoutes, so after a
\* miss the write goes to that object too; after a hit it does when the
\* cached object is the stored one, which the state tells only when the
\* path was registered once, and the caller writes only then.  ret is what
\* find returned, before the write.
FindThenWrite(method, path, name) ==
    LET cacheKey == CacheKey(method, path)
        cached   == CacheGet(cache, cacheKey, now)
        result   == TreeOfMethod(router.trees, method, path)
        match    == IF cached.hit THEN cached.value ELSE result
        found    == IF cached.hit \/ ~result.found
                    THEN cached.cache
                    ELSE CacheSet(cached.cache, cacheKey, result, now)
        static   == /\ Lookup(DOMAIN router.trees, method) = "own"
                    /\ path \in DOMAIN router.trees[method].staticRoutes
        stored   == router.trees[method].staticRoutes[path]
        times    == Len(SelectSeq(routeLog,
                        LAMBDA e : e.method = method /\ e.path = path))
    IN  /\ match.found
        /\ (cached.hit /\ static /\ match = stored) => times = 1
        /\ cache' = IF cacheKey \in DOMAIN found.cache
                    THEN [found EXCEPT !.cache[cacheKey].value =
                                            SetParam(match, name, Written)]
                    ELSE found
        /\ router' = IF static /\ match = stored
                     THEN [router EXCEPT !.trees[method].staticRoutes[path] =
                                             SetParam(match, name, Written)]
                     ELSE router
        /\ ret' = Ret("find", method, path, FALSE, match)
        /\ UNCHANGED <<treeVars, partVars, now, routeLog, observed, lruVars>>

NextShared ==
    \/ \E path \in ObservedRoutePaths, handlers \in HandlerLists :
           AddRoute(GET, path, handlers)
    \/ \E path \in ObservedFindPaths : Find(GET, path)
    \/ \E path \in ObservedFindPaths, name \in WrittenNames :
           FindThenWrite(GET, path, name)
    \/ Tick

SpecShared == Init /\ [][NextShared]_vars

-----------------------------------------------------------------------------
(* A wrapped route handler on its own *)

\* wrappedHandler(res, req, query, params) of a route with these handlers:
\* index = 0 and the first next()
WrappedHandler(handlers) ==
    /\ chain.stack = <<>>
    /\ chain' = CallNext([NoChain EXCEPT !.mw = RouteHandler(handlers).mw,
                                         !.fn = RouteHandler(handlers).fn])
    /\ UNCHANGED <<treeVars, routerVars, lruVars, ret, pipeline, limiter, objectPool>>

\* the middleware that is running calls the next it was given
MiddlewareCallsNext ==
    /\ chain.stack # <<>>
    /\ chain.stack[Len(chain.stack)].left > 0
    /\ chain' = CallNext([chain EXCEPT
                    !.stack[Len(chain.stack)].left = @ - 1,
                    !.calledNext = @ \cup {chain.stack[Len(chain.stack)].mw}])
    /\ UNCHANGED <<treeVars, routerVars, lruVars, ret, pipeline, limiter, objectPool>>

\* the middleware that is running returns
MiddlewareReturns ==
    /\ chain.stack # <<>>
    /\ chain.stack[Len(chain.stack)].left = 0
    /\ chain' = [chain EXCEPT
                    !.stack = SubSeq(@, 1, Len(@) - 1),
                    !.returned = @ \cup {chain.stack[Len(chain.stack)].mw}]
    /\ UNCHANGED <<treeVars, routerVars, lruVars, ret, pipeline, limiter, objectPool>>

NextChain ==
    \/ \E handlers \in ChainHandlerLists : WrappedHandler(handlers)
    \/ MiddlewareCallsNext
    \/ MiddlewareReturns

SpecChain == Init /\ [][NextChain]_vars

-----------------------------------------------------------------------------
(* A router with global middleware behind a server *)

\* use(pathOrHandler, handler); the entry keeps the second argument for
\* reference, and what the last request did is forgotten
Use(pathOrHandler, handler) ==
    LET path == IF pathOrHandler.type = "string" THEN pathOrHandler.text ELSE <<"/">>
        middleware == IF pathOrHandler.type = "string" THEN handler ELSE pathOrHandler
        metadata == ParseMiddlewareMetadata([source |-> middleware.text])
    IN  /\ Len(pipeline.middlewares) < MaxUse
        /\ pipeline' = [NoPipeline EXCEPT !.middlewares = Append(pipeline.middlewares,
                            [path |-> router.prefix \o path,
                             handler |-> middleware,
                             methods |-> metadata.methods,
                             secure |-> metadata.secure,
                             second |-> handler])]
        /\ UNCHANGED <<treeVars, routerVars, lruVars, ret, chain, limiter, objectPool>>

\* _handleRequest running the middleware before it looks at the match
HandleRequestMiddlewareFirst(method, url, isSecure) ==
    LET cacheKey == CacheKey(method, url)
        cached   == CacheGet(cache, cacheKey, now)
        result   == TreeOfMethod(router.trees, method, url)
        match    == IF cached.hit THEN cached.value ELSE result
        run      == ExecuteNext(pipeline.middlewares, 0, method, url, isSecure, <<>>)
    IN  /\ ~result.threw
        /\ cache' = IF cached.hit \/ ~result.found
                    THEN cached.cache
                    ELSE CacheSet(cached.cache, cacheKey, result, now)
        /\ ret' = Ret("find", method, url, FALSE, match)
        /\ pipeline' = [pipeline EXCEPT
               !.method = method, !.url = url, !.matched = match.found,
               !.invoked = run.invoked,
               !.final = run.final /\ match.found,
               !.status = IF run.final /\ ~match.found THEN 404 ELSE run.status]
        /\ UNCHANGED <<treeVars, router, now, routeLog, observed, lruVars, chain, limiter, objectPool>>

\* VeloxServer._handleRequest for a request with this method and path: find,
\* 404 without a match, else the middleware and the route's handler
HandleRequest(method, url, isSecure) ==
    LET cacheKey == CacheKey(method, url)
        cached   == CacheGet(cache, cacheKey, now)
        result   == TreeOfMethod(router.trees, method, url)
        match    == IF cached.hit THEN cached.value ELSE result
        run      == ExecuteNext(pipeline.middlewares, 0, method, url, isSecure, <<>>)
    IN  /\ ~result.threw
        /\ cache' = IF cached.hit \/ ~result.found
                    THEN cached.cache
                    ELSE CacheSet(cached.cache, cacheKey, result, now)
        /\ ret' = Ret("find", method, url, FALSE, match)
        /\ pipeline' =
               IF ~match.found
               THEN [pipeline EXCEPT !.method = method, !.url = url, !.matched = FALSE,
                                     !.invoked = <<>>, !.final = FALSE, !.status = 404]
               ELSE IF Len(pipeline.middlewares) > 0
               THEN [pipeline EXCEPT !.method = method, !.url = url, !.matched = TRUE,
                                     !.invoked = run.invoked, !.final = run.final,
                                     !.status = run.status]
               ELSE [pipeline EXCEPT !.method = method, !.url = url, !.matched = TRUE,
                                     !.invoked = <<>>, !.final = TRUE, !.status = 0]
        /\ UNCHANGED <<treeVars, router, now, routeLog, observed, lruVars, chain, limiter, objectPool>>

UseUrls == {<<"/", "u", "s", "e", "r", "s">>, <<"/", "x">>}

NextUse ==
    \/ \E call \in UseCalls : Use(call[1], call[2])
    \/ \E method \in {<<"g", "e", "t">>, <<"p", "o", "s", "t">>} : AddRoute(method, <<"/", "u", "s", "e", "r", "s">>, <<"H1">>)
    \/ \E method \in {GET, POST}, url \in UseUrls, isSecure \in BOOLEAN :
           HandleRequest(method, url, isSecure)

SpecUse == Init /\ [][NextUse]_vars

-----------------------------------------------------------------------------
(* A rate limiting middleware on its own *)

\* rateLimit(options)
RateLimit(options) ==
    /\ ~limiter.made
    /\ limiter' = [NoLimiter EXCEPT !.made = TRUE, !.options = options]
    /\ UNCHANGED <<treeVars, routerVars, lruVars, ret, chain, pipeline, objectPool>>

\* the middleware with the lookup of the bucket run before the call before
\* it, of the same client, had stored its bucket
RateLimitMiddlewareLookupEarly(key) ==
    LET options == limiter.options
        seen    == key \in DOMAIN limiter.store /\ limiter.last.key # key
        bucket  == IF seen
                   THEN limiter.store[key]
                   ELSE TokenBucket(options.maxRequests, RateWindow, now)
        taken   == Consume(bucket, now)
        before  == IF limiter.passed[key].at = now THEN limiter.passed[key].n ELSE 0
    IN  /\ limiter.made
        /\ limiter.calls < MaxCalls
        /\ limiter' = [limiter EXCEPT
               !.store = MapSet(@, key, taken.bucket),
               !.calls = @ + 1,
               !.buckets[key] = IF seen THEN @ ELSE @ + 1,
               !.wrapped[key] =
                   IF /\ taken.allowed
                      /\ options.skipSuccessfulRequests \/ options.skipFailedRequests
                   THEN @ + 1 ELSE @,
               !.passed[key] = IF taken.allowed THEN [at |-> now, n |-> before + 1]
                               ELSE [at |-> now, n |-> before],
               !.last = IF taken.allowed
                        THEN [key |-> key, next |-> TRUE, status |-> 0, custom |-> FALSE]
                        ELSE IF options.handler = "custom"
                        THEN [key |-> key, next |-> FALSE, status |-> CustomStatusCode,
                              custom |-> TRUE]
                        ELSE [key |-> key, next |-> FALSE, status |-> options.statusCode,
                              custom |-> FALSE]]
        /\ UNCHANGED <<treeVars, routerVars, lruVars, ret, chain, pipeline, objectPool>>

\* the middleware called for a request of the client with this key
RateLimitMiddleware(key) ==
    LET options == limiter.options
        bucket  == IF key \in DOMAIN limiter.store
                   THEN limiter.store[key]
                   ELSE TokenBucket(options.maxRequests, RateWindow, now)
        taken   == Consume(bucket, now)
        before  == IF limiter.passed[key].at = now THEN limiter.passed[key].n ELSE 0
    IN  /\ limiter.made
        /\ limiter.calls < MaxCalls
        /\ limiter' = [limiter EXCEPT
               !.store = MapSet(@, key, taken.bucket),
               !.calls = @ + 1,
               !.buckets[key] = IF key \in DOMAIN limiter.store THEN @ ELSE @ + 1,
               !.wrapped[key] =
                   IF /\ taken.allowed
                      /\ options.skipSuccessfulRequests \/ options.skipFailedRequests
                   THEN @ + 1 ELSE @,
               !.passed[key] = IF taken.allowed THEN [at |-> now, n |-> before + 1]
                               ELSE [at |-> now, n |-> before],
               !.last = IF taken.allowed
                        THEN [key |-> key, next |-> TRUE, status |-> 0, custom |-> FALSE]
                        ELSE IF options.handler = "custom"
                        THEN [key |-> key, next |-> FALSE, status |-> CustomStatusCode,
                              custom |-> TRUE]
                        ELSE [key |-> key, next |-> FALSE, status |-> options.statusCode,
                              custom |-> FALSE]]
        /\ UNCHANGED <<treeVars, routerVars, lruVars, ret, chain, pipeline, objectPool>>

\* res.end of a response the middleware has wrapped, with res.statusCode
ResEnd(key, statusCode) ==
    LET options    == limiter.options
        shouldSkip == \/ options.skipSuccessfulRequests /\ statusCode < 400
                      \/ options.skipFailedRequests /\ statusCode >= 400
        bucket     == limiter.store[key]
    IN  /\ limiter.wrapped[key] > 0
        /\ limiter' = [limiter EXCEPT
               !.wrapped[key] = @ - 1,
               !.store[key].tokens =
                   IF shouldSkip
                   THEN Smaller(bucket.capacity * bucket.per, bucket.tokens + bucket.per)
                   ELSE @]
        /\ UNCHANGED <<treeVars, routerVars, lruVars, ret, chain, pipeline, objectPool>>

NextRate ==
    \/ \E options \in RateOptions : RateLimit(options)
    \/ \E key \in RateKeys : RateLimitMiddleware(key)
    \/ \E key \in RateKeys, statusCode \in {200, 500} : ResEnd(key, statusCode)
    \/ Tick

SpecRate == Init /\ [][NextRate]_vars

-----------------------------------------------------------------------------
(* An ObjectPool on its own *)

\* new ObjectPool(factory, reset, maxSize)
NewObjectPool(maxSize) ==
    /\ ~objectPool.made
    /\ objectPool' = [NoObjectPool EXCEPT !.made = TRUE, !.maxSize = maxSize]
    /\ UNCHANGED <<treeVars, routerVars, lruVars, ret, chain, pipeline, limiter>>

\* acquire(): the last object of the pool, or a new one
Acquire ==
    /\ objectPool.made
    /\ objectPool.activeCount < MaxObjects
    /\ IF Len(objectPool.pool) > 0
       THEN objectPool' = [objectPool EXCEPT
                !.activeCount = @ + 1,
                !.pool = SubSeq(@, 1, Len(@) - 1),
                !.last = [op |-> "acquire", stored |-> FALSE]]
       ELSE /\ objectPool.objects < MaxObjects
            /\ objectPool' = [objectPool EXCEPT
                   !.activeCount = @ + 1,
                   !.objects = @ + 1,
                   !.last = [op |-> "acquire", stored |-> FALSE]]
    /\ UNCHANGED <<treeVars, routerVars, lruVars, ret, chain, pipeline, limiter>>

\* a release that stores whatever the pool holds
ReleaseUnchecked(obj) ==
    /\ objectPool.made
    /\ objectPool.activeCount > -MaxObjects
    /\ Len(objectPool.pool) <= MaxObjects
    /\ objectPool' = [objectPool EXCEPT
           !.activeCount = @ - 1,
           !.pool = Append(@, Reset(obj)),
           !.last = [op |-> "release", stored |-> TRUE]]
    /\ UNCHANGED <<treeVars, routerVars, lruVars, ret, chain, pipeline, limiter>>

\* release(obj), for any object the factory has made: the pool does not
\* know which objects are out
Release(obj) ==
    /\ objectPool.made
    /\ objectPool.activeCount > -MaxObjects
    /\ objectPool' = [objectPool EXCEPT
           !.activeCount = @ - 1,
           !.pool = IF Len(objectPool.pool) < objectPool.maxSize
                    THEN Append(@, Reset(obj)) ELSE @,
           !.last = [op |-> "release",
                     stored |-> Len(objectPool.pool) < objectPool.maxSize]]
    /\ UNCHANGED <<treeVars, routerVars, lruVars, ret, chain, pipeline, limiter>>

\* clear()
PoolClear ==
    /\ objectPool.made
    /\ objectPool' = [objectPool EXCEPT !.pool = <<>>, !.activeCount = 0,
                                        !.last = [op |-> "clear", stored |-> FALSE]]
    /\ UNCHANGED <<treeVars, routerVars, lruVars, ret, chain, pipeline, limiter>>

NextPool ==
    \/ \E maxSize \in 0..MaxPoolSize : NewObjectPool(maxSize)
    \/ Acquire
    \/ \E n \in 1..MaxObjects :
           objectPool.objects >= n /\ Release(Used(Factory(n)))
    \/ PoolClear

SpecPool == Init /\ [][NextPool]_vars

-----------------------------------------------------------------------------
(* An LRUCache on its own *)

\* the keys and the value of the calls: more keys than the cache holds
LruKeys == {<<"a">>, <<"b">>, <<"c">>, <<"d">>}

LruValues == {Match(Fn("H1"), NoParams)}

\* a boolean return value, in the shape of the other results
BoolResult(b) ==
    [found |-> b, threw |-> FALSE, handler |-> NoHandler, params |-> NoParams]

\* touched lists the stored keys, the one touched last by a set or a
\* successful get first; got says that a call of get for the key succeeded
\* in a cache of at least two entries, since the key was added and since the
\* last eviction at capacity.  It is kept from the calls and what they
\* return, without the linked list.
Touch(s, key, got) ==
    LET before == {i \in 1..Len(s) : s[i].key = key}
    IN  <<[key |-> key, got |-> got \/ \E i \in before : s[i].got]>>
            \o SelectSeq(s, LAMBDA e : e.key # key)

\* evicted is the key the last call removed without being asked to, null
\* when it removed none: a set to make room, a get or has for an entry past
\* its time to live
Removed(before, after) ==
    IF DOMAIN before.cache \subseteq DOMAIN after.cache THEN Null
    ELSE CHOOSE key \in DOMAIN before.cache : key \notin DOMAIN after.cache

\* the entries of the keys still stored
Stored(s, c) == SelectSeq(s, LAMBDA e : e.key \in DOMAIN c.cache)

\* cache.get(key)
LruGetCall(op, key) ==
    LET got == CacheGet(lru, key, now)
    IN  /\ lru' = got.cache
        /\ touched' = IF got.hit
                      THEN Touch(touched, key, op = "get" /\ lru.size >= 2)
                      ELSE Stored(touched, got.cache)
        /\ evicted' = Removed(lru, lru')
        /\ ret' = Ret(op, Null, key, FALSE,
                      IF op = "has" THEN BoolResult(got.hit) ELSE got.value)
        /\ UNCHANGED <<treeVars, partVars, routerVars>>

LruGet(key) == LruGetCall("get", key)

\* cache.has(key), which returns this.get(key) !== undefined
LruHas(key) == LruGetCall("has", key)

\* cache.set(key, value)
LruSet(key, value) ==
    LET evicts == key \notin DOMAIN lru.cache /\ lru.size + 1 > lru.maxSize
        kept   == Stored(Touch(touched, key, FALSE), lru')
    IN  /\ lru' = CacheSet(lru, key, value, now)
        /\ touched' = IF evicts
                      THEN [i \in 1..Len(kept) |-> [kept[i] EXCEPT !.got = FALSE]]
                      ELSE kept
        /\ evicted' = IF evicts THEN Removed(lru, lru') ELSE Null
        /\ ret' = Ret("set", Null, key, FALSE, value)
        /\ UNCHANGED <<treeVars, partVars, routerVars>>

\* cache.delete(key)
LruDelete(key) ==
    /\ lru' = CacheDelete(lru, key)
    /\ touched' = Stored(touched, lru')
    /\ evicted' = Null
    /\ ret' = Ret("delete", Null, key, FALSE, BoolResult(key \in DOMAIN lru.cache))
    /\ UNCHANGED <<treeVars, partVars, routerVars>>

\* cache.clear()
LruClear ==
    /\ lru' = CacheClear(lru)
    /\ touched' = <<>>
    /\ evicted' = Null
    /\ ret' = Ret("clear", Null, Null, FALSE, Undefined)
    /\ UNCHANGED <<treeVars, partVars, routerVars>>

NextCache ==
    \/ \E key \in LruKeys : LruGet(key)
    \/ \E key \in LruKeys, value \in LruValues : LruSet(key, value)
    \/ \E key \in LruKeys : LruHas(key)
    \/ \E key \in LruKeys : LruDelete(key)
    \/ LruClear
    \/ Tick

SpecCache == Init /\ [][NextCache]_vars

\* the router with routes under two methods, and with method names it has
\* no tree for
MethodNames == {<<"g", "e", "t">>, <<"p", "o", "s", "t">>, <<"T", "R", "A", "C", "E">>, <<"c", "o", "n", "s", "t", "r", "u", "c", "t", "o", "r">>}

MethodFindNames == {GET, POST, <<"T", "R", "A", "C", "E">>, <<"c", "o", "n", "s", "t", "r", "u", "c", "t", "o", "r">>}

MethodFindPaths == {<<"/", "h">>, <<"/", "x">>}

NextMethods ==
    \/ \E method \in MethodNames, handlers \in HandlerLists :
           AddRoute(method, <<"/", "h", "/">>, handlers)
    \/ \E method \in MethodFindNames, path \in MethodFindPaths : Find(method, path)
    \/ Tick

SpecMethods == Init /\ [][NextMethods]_vars

\* an LRUCache and a router side by side, on one clock
ExpiryKeys == {<<"a">>, <<"b">>}

NextExpiry ==
    \/ \E key \in ExpiryKeys : LruGet(key)
    \/ \E key \in ExpiryKeys, value \in LruValues : LruSet(key, value)
    \/ \E handlers \in HandlerLists : AddRoute(GET, <<"/", "h", "/">>, handlers)
    \/ Find(GET, <<"/", "h">>)
    \/ Tick

SpecExpiry == Init /\ [][NextExpiry]_vars

-----------------------------------------------------------------------------
(* Properties: the notions they are stated with *)

\* the segments of a request path, as search splits it
PathSegments(path) == FilterBoolean(SplitOn(path, "/"))

\* the type tag of a parameter segment names a validator of the catalog
Registered(type) == Truthy(type) /\ Includes(VALIDATOR_TYPES, type)

\* the names of the parameters a pattern declares
ParamNames(pattern) ==
    LET segments == ParsePathSegments(pattern)
    IN  {segments[k].name : k \in {j \in 1..Len(segments) : segments[j].isParam}}

HasParam(pattern) == ParamNames(pattern) # {}

\* the patterns of a list of insert calls are distinct
DistinctPatterns(log) ==
    \A i \in 1..Len(log) : \A j \in 1..Len(log) : i # j => log[i].path # log[j].path

\* the handler the last insert of a pattern gave it
LastInsert(log, pattern) ==
    LET at == {i \in 1..Len(log) : log[i].path = pattern}
    IN  log[CHOOSE i \in at : \A j \in at : j <= i].handler

\* the tree a list of insert calls builds
RECURSIVE BuildTree(_)
BuildTree(log) ==
    IF Len(log) = 0 THEN EmptyTree
    ELSE Insert(BuildTree(SubSeq(log, 1, Len(log) - 1)),
                log[Len(log)].path, log[Len(log)].handler)

\* the calls of a list in every order
Orders(log) ==
    {[i \in 1..Len(log) |-> log[p[i]]] : p \in Permutations(1..Len(log))}

\* a pattern of the shape /literal/:name=type
IsSiblingPattern(pattern) ==
    LET segments == ParsePathSegments(pattern)
    IN  Len(segments) = 2 /\ ~segments[1].isParam /\ segments[2].isParam

\* the search the last call made was in the trie, below the literal of two
\* sibling patterns
SearchedBelow(pattern) ==
    /\ ret.op = "search"
    /\ ret.path \notin DOMAIN tree.staticRoutes
    /\ Len(PathSegments(ret.path)) = 2
    /\ PathSegments(ret.path)[1] = ParsePathSegments(pattern)[1].value

-----------------------------------------------------------------------------
(* Properties *)

\* C1: when the tree holds two sibling parameter routes, one with a type of
\* the validator catalog and one untyped or with a type outside it, inserted
\* in either order, a search whose segment passes the validator returns the
\* typed route's handler with the converted value, and a search whose
\* segment fails it returns the other route's handler with the raw string.
C1_TypedSiblingPriority ==
    \A a \in 1..Len(treeLog) : \A b \in 1..Len(treeLog) :
        LET typed == ParsePathSegments(treeLog[a].path)
            other == ParsePathSegments(treeLog[b].path)
            seg   == PathSegments(ret.path)[2]
        IN  ( /\ Len(treeLog) = 2
              /\ a # b
              /\ IsSiblingPattern(treeLog[a].path)
              /\ IsSiblingPattern(treeLog[b].path)
              /\ typed[1].value = other[1].value
              /\ Registered(typed[2].type)
              /\ ~Registered(other[2].type)
              /\ SearchedBelow(treeLog[a].path) )
            => ret.result =
                  IF VALIDATORS(typed[2].type, seg)
                  THEN Match(treeLog[a].handler,
                             typed[2].name :> convertParam(seg, typed[2].type))
                  ELSE Match(treeLog[b].handler, other[2].name :> StrVal(seg))

\* C2: for a set of distinct patterns, search returns the same handler and
\* params for every path whatever the order the patterns were inserted in.
C2_InsertionOrderIndependent ==
    DistinctPatterns(treeLog) =>
        \A log \in Orders(treeLog) : \A path \in TreePaths :
            Search(BuildTree(log), path) = Search(tree, path)

\* C3: when sibling routes typed int, number and string are all registered
\* at the same position, an integer segment resolves to the int route, a
\* decimal segment to the number route and any other segment to the string
\* route.
C3_MostSpecificFirst ==
    LET patterns == {treeLog[i].path : i \in 1..Len(treeLog)}
        int      == <<"/", "u", "/", ":", "i", "=", "i", "n", "t">>
        number   == <<"/", "u", "/", ":", "i", "=", "n", "u", "m", "b", "e", "r">>
        string   == <<"/", "u", "/", ":", "i", "=", "s", "t", "r", "i", "n", "g">>
        seg      == PathSegments(ret.path)[2]
    IN  ( /\ patterns = {int, number, string}
          /\ SearchedBelow(int) )
        => /\ ret.result.found
           /\ ret.result.handler =
                 IF ReInt(seg) THEN LastInsert(treeLog, int)
                 ELSE IF ReFloat(seg) THEN LastInsert(treeLog, number)
                 ELSE LastInsert(treeLog, string)

\* the result the method's tree gives with the cache bypassed
Bypass(method, path) == TreeOfMethod(router.trees, method, path)

\* C4: every find returns what the method's RadixTree.search returns at that
\* moment with the cache bypassed.
C4_CacheTransparency ==
    ret.op = "find" => ret.result = Bypass(ret.method, ret.path)

\* the insertions addRoute made under a method
RoutesOf(method) == SelectSeq(routeLog, LAMBDA e : e.method = method)

\* C5: after a pattern is inserted a second time, every lookup of its path
\* returns the handler of the last insertion, through search and through
\* find: a static pattern's path resolves to the handler inserted last, and
\* no lookup returns a handler that a later insertion replaced.
C5_LastWriteWins ==
    /\ \A i \in 1..Len(routeLog) :
          LET e == routeLog[i]
          IN  ~HasParam(e.path) =>
                 Search(router.trees[e.method], e.path).handler
                    = LastInsert(RoutesOf(e.method), e.path)
    /\ \A i \in 1..Len(routeLog) :
          LET e == routeLog[i]
          IN  (ret.op = "find" /\ ret.method = e.method /\ ret.path = e.path
                 /\ ~HasParam(e.path))
              => ret.result.handler = LastInsert(RoutesOf(e.method), e.path)
    /\ (ret.op = "find" /\ ret.result.found)
          => \E i \in 1..Len(routeLog) :
                /\ routeLog[i].method = ret.method
                /\ ret.result.handler
                      = LastInsert(RoutesOf(ret.method), routeLog[i].path)

\* C6: with the registered patterns held fixed, two find calls with the same
\* arguments return the same handler and params, whatever find calls,
\* evictions and expiries happen in between.
C6_Determinism ==
    ( /\ observed.set
      /\ observed.at = Len(routeLog)
      /\ ret.op = "find"
      /\ ret.method = observed.method
      /\ ret.path = observed.path )
    => ret.result = observed.result

\* C7: a match returned for a pattern with parameters binds every parameter
\* name the pattern declares.
C7_NoPartialMatch ==
    ( /\ ret.op = "search"
      /\ ret.result.found
      /\ ret.path \notin DOMAIN tree.staticRoutes )
    => \E i \in 1..Len(treeLog) :
          /\ HasParam(treeLog[i].path)
          /\ treeLog[i].handler = ret.result.handler
          /\ ParamNames(treeLog[i].path) \subseteq DOMAIN ret.result.params

\* a segment of the path fails the registered validator of the pattern's
\* parameter at the same position
Rejects(pattern, path) ==
    LET segments == ParsePathSegments(pattern)
        given    == PathSegments(path)
    IN  \E k \in 1..Len(segments) :
           /\ k <= Len(given)
           /\ segments[k].isParam
           /\ Registered(segments[k].type)
           /\ ~VALIDATORS(segments[k].type, given[k])

\* C8: a route with a parameter typed by a registered validator is never
\* returned for a path whose segment at that position fails the validator.
C8_ValidationGates ==
    ( /\ ret.op = "search"
      /\ ret.result.found
      /\ ret.path \notin DOMAIN tree.staticRoutes )
    => \E i \in 1..Len(treeLog) :
          /\ HasParam(treeLog[i].path)
          /\ treeLog[i].handler = ret.result.handler
          /\ ~Rejects(treeLog[i].path, ret.path)

\* the path extends the pattern's literal segments before a final * by one
\* or more segments
ExtendsWildcard(pattern, path) ==
    LET parts == PathSegments(pattern)
        given == PathSegments(path)
    IN  /\ Len(parts) >= 1
        /\ parts[Len(parts)] = <<"*">>
        /\ Len(given) >= Len(parts)
        /\ SubSeq(given, 1, Len(parts) - 1) = SubSeq(parts, 1, Len(parts) - 1)

\* C9: after a route is registered on a pattern ending in *, find returns
\* that route's handler for every path that extends the pattern's prefix by
\* one or more segments.
C9_TrailingWildcard ==
    \A i \in 1..Len(routeLog) :
        ( /\ ret.op = "find"
          /\ ret.method = routeLog[i].method
          /\ ExtendsWildcard(routeLog[i].path, ret.path) )
        => /\ ret.result.found
           /\ \E j \in 1..Len(routeLog) :
                 /\ routeLog[j].method = ret.method
                 /\ routeLog[j].path = routeLog[i].path
                 /\ routeLog[j].handler = ret.result.handler

\* C10: after a route is registered as P + '/', find(method, P + '/')
\* returns that route's handler.
C10_TrailingSlash ==
    \A i \in 1..Len(routeLog) :
        ( /\ ret.op = "find"
          /\ ret.method = routeLog[i].method
          /\ ret.path = routeLog[i].raw
          /\ routeLog[i].raw[Len(routeLog[i].raw)] = "/" )
        => /\ ret.result.found
           /\ \E j \in 1..Len(routeLog) :
                 /\ routeLog[j].method = ret.method
                 /\ routeLog[j].raw = ret.path
                 /\ routeLog[j].handler = ret.result.handler

-----------------------------------------------------------------------------
(* Properties of the route cache *)

\* a pattern accepts a path: as many segments, equal literals, and every
\* segment at a position typed with a validator of the catalog passes it
Accepts(pattern, path) ==
    LET declared == ParsePathSegments(pattern)
        segs     == PathSegments(path)
    IN  /\ Len(declared) = Len(segs)
        /\ \A k \in 1..Len(declared) :
               IF declared[k].isParam
               THEN Registered(declared[k].type)
                       => VALIDATORS(declared[k].type, segs[k])
               ELSE declared[k].value = segs[k]

\* the find under observation returned null, and the one route registered
\* since is under its method and accepts its path
NullThenRegistered ==
    /\ observed.set
    /\ ~observed.result.found
    /\ Len(routeLog) = observed.at + 1
    /\ routeLog[Len(routeLog)].method = observed.method
    /\ Accepts(routeLog[Len(routeLog)].path, observed.path)

\* the last call was a find with the arguments of the one under observation
FindAgain ==
    /\ ret.op = "find"
    /\ ret.method = observed.method
    /\ ret.path = observed.path

FoundAfterNull ==
    (NullThenRegistered /\ FindAgain)
    => /\ ret.result.found
       /\ ret.result.handler = routeLog[Len(routeLog)].handler

\* C11: a find that returns null leaves the route cache as it was, and when
\* a route that accepts the path is registered under the method after a find
\* returned null, the next find with the same arguments returns that route's
\* handler.
C11_NullNotCached ==
    /\ [][(ret'.op = "find" /\ ~ret'.result.found) => cache' = cache]_vars
    /\ []FoundAfterNull

C11_Witness == NullThenRegistered /\ FindAgain /\ ret.result.found

-----------------------------------------------------------------------------
(* Properties of the LRUCache *)

\* the step is a set of a key that is not stored, on a full cache
SetOnFull ==
    /\ ret'.op = "set"
    /\ now' = now
    /\ ret'.path \notin DOMAIN lru.cache
    /\ lru.size = lru.maxSize

\* the key touched least recently by a set or a successful get
LeastRecentlyTouched == touched[Len(touched)].key

\* C12: when set adds a new key to a cache that holds maxSize entries,
\* exactly one stored entry is removed, it is the one touched least recently
\* by a set or a successful get, and every other entry stays stored with
\* its value and timestamp and is as retrievable as before.
C12_LruEviction ==
    [][ SetOnFull =>
          /\ LeastRecentlyTouched \in DOMAIN lru.cache
          /\ DOMAIN lru'.cache
                = (DOMAIN lru.cache \ {LeastRecentlyTouched}) \cup {ret'.path}
          /\ lru'.size = lru.maxSize
          /\ \A key \in DOMAIN lru.cache \ {LeastRecentlyTouched} :
                /\ lru'.cache[key].value = lru.cache[key].value
                /\ lru'.cache[key].timestamp = lru.cache[key].timestamp
                /\ CacheGet(lru', key, now).hit = CacheGet(lru, key, now).hit
                /\ CacheGet(lru', key, now).value = CacheGet(lru, key, now).value
      ]_vars

\* a set removed an entry from a full cache and left another
C12_Witness ==
    /\ ret.op = "set"
    /\ evicted # Null
    /\ evicted \notin DOMAIN lru.cache
    /\ DOMAIN lru.cache \ {ret.path} # {}

\* the last call was a successful get
GetHit == ret.op = "get" /\ ret.result.found

\* the entries a get returned since the last eviction at capacity are not
\* removed by the next one
C13_NextEvictionSparesGot ==
    [][ (SetOnFull /\ lru.size >= 2) =>
          \A i \in 1..Len(touched) :
              touched[i].got => touched[i].key \in DOMAIN lru'.cache ]_vars

\* C13: a successful get(k) makes k the most recently used entry: k is at
\* the head of the list, and in a cache holding at least two entries an
\* eviction at capacity that follows the get with no other call in between
\* does not remove k.
C13_GetMakesMostRecent ==
    /\ [](GetHit => (lru.head = ret.path /\ touched[1].key = ret.path))
    /\ [][ (GetHit /\ SetOnFull /\ lru.size >= 2)
              => ret.path \in DOMAIN lru'.cache ]_vars

\* a get returned the entry of a full cache of at least two entries: the
\* next set of a new key evicts
C13_Witness ==
    /\ GetHit
    /\ lru.size = lru.maxSize
    /\ lru.size >= 2
    /\ lru.tail # ret.path

\* the keys on the list of a cache, from the head along next, at most n
RECURSIVE ListFrom(_, _, _)
ListFrom(c, key, n) ==
    IF key = Null \/ n = 0 THEN <<>>
    ELSE <<key>> \o ListFrom(c, c.cache[key].next, n - 1)

ListKeys(c) ==
    LET list == ListFrom(c, c.head, c.size + 1)
    IN  {list[i] : i \in 1..Len(list)}

\* the age of a stored entry is above the time to live
Expired(c, key, t) == c.ttl # 0 /\ t - c.cache[key].timestamp > c.ttl

\* C14: with a time to live, a get of a stored entry older than it removes
\* the entry from the map, the list and the size and returns undefined, and a
\* get of a stored entry at most that old returns its value; a find whose
\* cached route is older than it returns what the tree search returns and
\* caches it anew, and a find whose cached route is at most that old returns
\* the cached route.
C14_LazyExpiry ==
    [][ /\ (ret'.op = "get" /\ now' = now /\ ret'.path \in DOMAIN lru.cache) =>
              IF Expired(lru, ret'.path, now)
              THEN /\ ret'.result = Undefined
                   /\ DOMAIN lru'.cache = DOMAIN lru.cache \ {ret'.path}
                   /\ ListKeys(lru') = ListKeys(lru) \ {ret'.path}
                   /\ lru'.size = lru.size - 1
              ELSE /\ ret'.result = lru.cache[ret'.path].value
                   /\ DOMAIN lru'.cache = DOMAIN lru.cache
        /\ LET key == CacheKey(ret'.method, ret'.path)
           IN  (ret'.op = "find" /\ now' = now /\ key \in DOMAIN cache.cache) =>
                  IF Expired(cache, key, now)
                  THEN /\ ret'.result = Search(router.trees[ret'.method], ret'.path)
                       /\ ret'.result.found
                             => cache'.cache[key] = CacheNode(key, ret'.result, now)
                  ELSE ret'.result = cache.cache[key].value
      ]_vars

\* a get found its entry older than the time to live and removed it
C14_Witness ==
    /\ ret.op = "get"
    /\ ret.result = Undefined
    /\ evicted = ret.path
    /\ lru.size > 0

-----------------------------------------------------------------------------
(* Properties of the cache's bookkeeping *)

\* C33: whatever calls of get, set, has, delete and clear were made, the map
\* holds at most maxSize keys and size, which getSize returns, is the number
\* of keys in the map.
C33_CapacityBound ==
    /\ Cardinality(DOMAIN lru.cache) <= lru.maxSize
    /\ lru.size = Cardinality(DOMAIN lru.cache)

\* a set of a new key found the cache full and left it full
C33_Witness ==
    /\ ret.op = "set"
    /\ evicted # Null
    /\ ret.path = lru.head
    /\ lru.size = lru.maxSize
    /\ Cardinality(DOMAIN lru.cache) = lru.maxSize

\* the keys on the list from the head along next, as far as the map has keys
\* and one more
Chain(c) == ListFrom(c, c.head, Cardinality(DOMAIN c.cache) + 1)

\* C34: the list from head along next holds the keys of the map, each once,
\* and ends at tail; head has no prev and tail no next; prev and next undo
\* each other; head and tail are null exactly when the map is empty.
C34_ListMatchesMap ==
    LET list == Chain(lru)
        keys == DOMAIN lru.cache
    IN  /\ Len(list) = Cardinality(keys)
        /\ {list[i] : i \in 1..Len(list)} = keys
        /\ list # <<>> => list[Len(list)] = lru.tail
        /\ lru.head # Null => lru.cache[lru.head].prev = Null
        /\ lru.tail # Null => lru.cache[lru.tail].next = Null
        /\ \A key \in keys :
              /\ lru.cache[key].next # Null
                    => /\ lru.cache[key].next \in keys
                       /\ lru.cache[lru.cache[key].next].prev = key
              /\ lru.cache[key].prev # Null
                    => /\ lru.cache[key].prev \in keys
                       /\ lru.cache[lru.cache[key].prev].next = key
        /\ (lru.head = Null) = (keys = {})
        /\ (lru.tail = Null) = (keys = {})

\* a get moved the tail of a full list of at least two to the head
C34_Witness ==
    /\ GetHit
    /\ lru.size = lru.maxSize
    /\ lru.size >= 2
    /\ lru.head = ret.path
    /\ lru.tail # ret.path
    /\ evicted = Null
    /\ \E i \in 1..Len(touched) : touched[i].key = ret.path /\ touched[i].got

\* C35: a get or has leaves the timestamp of every entry it keeps as it is,
\* the timestamp of an entry changes only in a set of its key, which makes it
\* the present time, and a get of an entry whose timestamp is more than ttl
\* back returns undefined also when the call before it was a hit of that
\* entry.
C35_HitKeepsTimestamp ==
    [][ /\ \A key \in DOMAIN lru.cache \cap DOMAIN lru'.cache :
              lru'.cache[key].timestamp # lru.cache[key].timestamp
                  => (ret'.op = "set" /\ ret'.path = key)
        /\ (ret'.op = "set" /\ now' = now /\ ret'.path \in DOMAIN lru'.cache)
              => lru'.cache[ret'.path].timestamp = now
        /\ ( /\ GetHit
             /\ ret'.op = "get"
             /\ ret'.path = ret.path
             /\ now' = now
             /\ ret.path \in DOMAIN lru.cache
             /\ Expired(lru, ret.path, now) )
              => /\ ret'.result = Undefined
                 /\ ret.path \notin DOMAIN lru'.cache
      ]_vars

\* a get returned an entry as old as the time to live allows, and the entry
\* kept its timestamp
C35_Witness ==
    /\ GetHit
    /\ lru.ttl > 0
    /\ now < MaxTime
    /\ now - lru.cache[ret.path].timestamp = lru.ttl

\* C36: a call of has leaves the stored keys and the order of the list, from
\* which the next entry to evict is taken, as they were.
C36_HasIsPureRead ==
    [][ (ret'.op = "has" /\ now' = now)
            => /\ DOMAIN lru'.cache = DOMAIN lru.cache
               /\ ListFrom(lru', lru'.head, lru'.size + 1)
                     = ListFrom(lru, lru.head, lru.size + 1) ]_vars

-----------------------------------------------------------------------------
(* Properties of the static routes, the methods and the parameter values *)

\* the path searched last is, character for character, a pattern without
\* parameters that was inserted
SearchedStatic ==
    /\ ret.op = "search"
    /\ ~HasParam(ret.path)
    /\ \E i \in 1..Len(treeLog) : treeLog[i].path = ret.path

\* C15: when the path is exactly an inserted pattern without parameters,
\* search returns the handler last inserted for that pattern, with empty
\* params, whatever parameter routes accept the path and wherever in the
\* order of the inserts they come.
C15_StaticPrecedence ==
    SearchedStatic => ret.result = Match(LastInsert(treeLog, ret.path), NoParams)

\* the static route was found although a parameter route inserted before it
\* and one inserted after it accept the path
C15_Witness ==
    /\ SearchedStatic
    /\ ret.result.found
    /\ \E i \in 1..Len(treeLog) : \E j \in 1..Len(treeLog) : \E k \in 1..Len(treeLog) :
           /\ i < j /\ j < k
           /\ treeLog[j].path = ret.path
           /\ HasParam(treeLog[i].path) /\ Accepts(treeLog[i].path, ret.path)
           /\ HasParam(treeLog[k].path) /\ Accepts(treeLog[k].path, ret.path)

\* C16: addRoute with a method that, in upper case, is none of GET, POST,
\* PUT, DELETE, PATCH, HEAD and OPTIONS throws, and leaves the trees with
\* their static routes, and the cache, as they were.
C16_UnsupportedMethodRejected ==
    [][ (ret'.op = "addRoute" /\ ToUpperCase(ret'.method) \notin SupportedMethods)
          => /\ ret'.threw
             /\ router' = router
             /\ cache' = cache
             /\ routeLog' = routeLog ]_vars

\* addRoute threw on a router that holds a route and a cached result
C16_Witness ==
    /\ ret.op = "addRoute"
    /\ ret.threw
    /\ routeLog # <<>>
    /\ cache.size > 0

\* no route registered under the method of the last call accepts its path
NoRouteAccepts ==
    \A i \in 1..Len(routeLog) :
        routeLog[i].method = ret.method => ~Accepts(routeLog[i].path, ret.path)

\* C17: find returns null, and does not throw, whenever no route registered
\* under the method accepts the path, whatever the method name is.
C17_FindReturnsNull ==
    (ret.op = "find" /\ NoRouteAccepts) => (~ret.threw /\ ret.result = NullResult)

\* C18: a match that find returns for a supported method has the handler of
\* a route registered under that method, whether it comes from the tree or
\* from the cache.
C18_MethodIsolation ==
    (ret.op = "find" /\ ret.method \in SupportedMethods /\ ret.result.found)
    => \E i \in 1..Len(routeLog) :
           /\ routeLog[i].method = ret.method
           /\ routeLog[i].handler = ret.result.handler

\* find returned one method's handler for a path while the cache holds
\* another method's different handler for the same path
C18_Witness ==
    /\ ret.op = "find"
    /\ ret.result.found
    /\ \E other \in SupportedMethods \ {ret.method} :
           /\ CacheKey(other, ret.path) \in DOMAIN cache.cache
           /\ CacheKey(ret.method, ret.path) \in DOMAIN cache.cache
           /\ cache.cache[CacheKey(other, ret.path)].value.handler
                 # ret.result.handler

\* the number a decimal numeral denotes is mantissa / 10^scale
RECURSIVE Mantissa(_)
Mantissa(digits) ==
    IF digits = <<>> THEN 0
    ELSE 10 * Mantissa(SubSeq(digits, 1, Len(digits) - 1))
           + (CHOOSE d \in 0..9 : ToString(d) = digits[Len(digits)])

Power10(n) == IF n = 0 THEN 1 ELSE IF n = 1 THEN 10 ELSE IF n = 2 THEN 100 ELSE 1000

Decimal(numeral) ==
    LET unsigned == IF numeral[1] = "-" THEN Tail(numeral) ELSE numeral
        dot      == Positions(unsigned, ".")
        scale    == IF dot = {} THEN 0 ELSE Len(unsigned) - (CHOOSE i \in dot : TRUE)
        m        == Mantissa(SelectSeq(unsigned, LAMBDA c : c # "."))
    IN  [mantissa |-> IF numeral[1] = "-" THEN 0 - m ELSE m, scale |-> scale]

SameNumber(a, b) ==
    Decimal(a).mantissa * Power10(Decimal(b).scale)
        = Decimal(b).mantissa * Power10(Decimal(a).scale)

\* the value a parameter of the type is to be bound to for the segment
IsConverted(type, segment, value) ==
    IF type \in {tNumber, tInt, tFloat}
    THEN value.t = "number" /\ SameNumber(value.v, segment)
    ELSE IF type = tBoolean
    THEN \/ segment \in {<<"t", "r", "u", "e">>, <<"1">>} /\ value = BoolVal(TRUE)
         \/ segment \in {<<"f", "a", "l", "s", "e">>, <<"0">>} /\ value = BoolVal(FALSE)
    ELSE value = StrVal(segment)

\* C19: in every match, each bound parameter holds the segment at its
\* position converted by its type: the number the segment denotes for
\* number, int and float, true for 'true' and '1' and false for 'false' and
\* '0' for boolean, and the segment itself for every other type and for no
\* type.
C19_BoundValuesConverted ==
    (ret.op = "search" /\ ret.result.found) =>
        \A i \in 1..Len(treeLog) :
            LET declared == ParsePathSegments(treeLog[i].path)
                segs     == PathSegments(ret.path)
            IN  \A k \in 1..Len(declared) :
                    ( /\ declared[k].isParam
                      /\ Len(declared) = Len(segs)
                      /\ declared[k].name \in DOMAIN ret.result.params )
                    => IsConverted(declared[k].type, segs[k],
                                   ret.result.params[declared[k].name])

\* a match bound a numeral that is not in canonical form to a number
C19_Witness ==
    /\ ret.op = "search"
    /\ ret.result.found
    /\ \E name \in DOMAIN ret.result.params :
           /\ ret.result.params[name].t = "number"
           /\ ret.result.params[name].v # PathSegments(ret.path)[2]

\* the tree holds a pattern that differs from the path searched last only
\* in a parameter with a type outside the catalog
UnknownTypeAccepts(i) ==
    LET declared == ParsePathSegments(treeLog[i].path)
    IN  /\ ret.op = "search"
        /\ Accepts(treeLog[i].path, ret.path)
        /\ \E k \in 1..Len(declared) :
               /\ declared[k].isParam
               /\ Truthy(declared[k].type)
               /\ ~Registered(declared[k].type)

\* C20: a parameter with a type name outside the validator catalog is
\* inserted without error, its route matches every segment value, and the
\* segment is bound as it is.
C20_UnknownTypePassesThrough ==
    \A i \in 1..Len(treeLog) :
        UnknownTypeAccepts(i) =>
            /\ ~ret.threw
            /\ ret.result.found
            /\ LET declared == ParsePathSegments(treeLog[i].path)
               IN  \A k \in 1..Len(declared) :
                       ( /\ declared[k].isParam
                         /\ declared[k].name \in DOMAIN ret.result.params )
                       => ret.result.params[declared[k].name]
                             = StrVal(PathSegments(ret.path)[k])

-----------------------------------------------------------------------------
(* Properties of the walk through the trie *)

\* C21: when an inserted pattern with a parameter accepts the path (as many
\* segments, equal literals, validators that pass at its typed positions),
\* search returns a match.
C21_BacktrackingComplete ==
    ( /\ ret.op = "search"
      /\ \E i \in 1..Len(treeLog) :
             HasParam(treeLog[i].path) /\ Accepts(treeLog[i].path, ret.path) )
    => ret.result.found


\* the position a pattern declares a parameter name at (the last one, as a
\* later assignment to params[name] replaces an earlier one)
ParamPosition(pattern, name) ==
    LET declared == ParsePathSegments(pattern)
        at == {k \in 1..Len(declared) : declared[k].isParam /\ declared[k].name = name}
    IN  CHOOSE k \in at : \A j \in at : j <= k

\* the value a pattern that accepts the path binds a name of its own to
BindingOf(pattern, path, name) ==
    LET k == ParamPosition(pattern, name)
    IN  convertParam(PathSegments(path)[k], ParsePathSegments(pattern)[k].type)

\* a pattern whose branch the walk enters and leaves again: its first
\* parameter has a validator that passes, the segments before it are equal
\* literals, and the pattern does not accept the path
Abandoned(pattern, path) ==
    LET declared == ParsePathSegments(pattern)
        segs     == PathSegments(path)
    IN  /\ Len(declared) = Len(segs)
        /\ ~Accepts(pattern, path)
        /\ \E k \in 1..Len(declared) :
               /\ declared[k].isParam
               /\ Registered(declared[k].type)
               /\ VALIDATORS(declared[k].type, segs[k])
               /\ \A j \in 1..(k - 1) :
                      ~declared[j].isParam /\ declared[j].value = segs[j]

\* C22: the params of a match found in the trie hold only bindings of one
\* inserted pattern that accepts the path, each with the value that pattern
\* binds; a name bound in a branch the walk gave up is not among them.
C22_BranchIsolation ==
    ( /\ ret.op = "search"
      /\ ret.result.found
      /\ ret.path \notin DOMAIN tree.staticRoutes )
    => \E i \in 1..Len(treeLog) :
           /\ HasParam(treeLog[i].path)
           /\ Accepts(treeLog[i].path, ret.path)
           /\ \A name \in DOMAIN ret.result.params :
                  /\ name \in ParamNames(treeLog[i].path)
                  /\ ret.result.params[name] = BindingOf(treeLog[i].path, ret.path, name)

\* a search matched after the walk had bound a name in a branch it gave up,
\* and the result is without that name
C22_Witness ==
    /\ ret.op = "search"
    /\ ret.result.found
    /\ \E i \in 1..Len(treeLog) :
           /\ Abandoned(treeLog[i].path, ret.path)
           /\ ParamNames(treeLog[i].path) \cap DOMAIN ret.result.params = {}

\* the parameter children of a node
ParamChildren(nodes, n) ==
    {Append(n, nodes[n].children[i]) : i \in 1..Len(nodes[n].children)}
        \cap {m \in DOMAIN nodes : nodes[m].isWildcard}

\* C28: the parameter children of every node differ in name or type, and an
\* insert keeps every node the trie has, with its name and type, so that a
\* child of the same name and another type comes beside the earlier one.
C28_ParamChildrenRetained ==
    /\ [][\A n \in DOMAIN tree.nodes :
              /\ n \in DOMAIN tree'.nodes
              /\ tree'.nodes[n].paramName = tree.nodes[n].paramName
              /\ tree'.nodes[n].paramType = tree.nodes[n].paramType]_vars
    /\ [](\A n \in DOMAIN tree.nodes :
              \A c \in ParamChildren(tree.nodes, n) :
                  \A d \in ParamChildren(tree.nodes, n) :
                      ( /\ tree.nodes[c].paramName = tree.nodes[d].paramName
                        /\ tree.nodes[c].paramType = tree.nodes[d].paramType ) => c = d)

\* the node the segments of a pattern lead to from node n, segment i on: a
\* literal by its text, a parameter by its name and type; Null when a node
\* on the way is missing
RECURSIVE NodeOf(_, _, _, _)
NodeOf(nodes, n, segments, i) ==
    IF i > Len(segments) THEN n
    ELSE IF segments[i].isParam
         THEN LET found == FindParamChild(nodes, n, segments[i])
              IN  IF found = Null THEN Null
                  ELSE NodeOf(nodes, Append(n, found), segments, i + 1)
         ELSE IF /\ Includes(nodes[n].children, segments[i].value)
                 /\ ~nodes[Append(n, segments[i].value)].isWildcard
              THEN NodeOf(nodes, Append(n, segments[i].value), segments, i + 1)
              ELSE Null

\* the pattern is a terminal node of the trie
InTrie(t, pattern) ==
    LET n == NodeOf(t.nodes, Root, ParsePathSegments(pattern), 1)
    IN  n # Null /\ t.nodes[n].isEndpoint

\* C27: every inserted pattern is in the static index and not a terminal of
\* the trie when it has no parameter, and a terminal of the trie and not in
\* the static index when it has one.
C27_OneStore ==
    \A i \in 1..Len(treeLog) :
        IF HasParam(treeLog[i].path)
        THEN InTrie(tree, treeLog[i].path) /\ treeLog[i].path \notin DOMAIN tree.staticRoutes
        ELSE treeLog[i].path \in DOMAIN tree.staticRoutes /\ ~InTrie(tree, treeLog[i].path)

\* the position of the first parameter of a pattern that has one
FirstParam(pattern) ==
    LET declared == ParsePathSegments(pattern)
        at == {k \in 1..Len(declared) : declared[k].isParam}
    IN  CHOOSE k \in at : \A j \in at : k <= j

\* the params are bindings of the pattern on the path
Yields(pattern, path, params) ==
    /\ Accepts(pattern, path)
    /\ DOMAIN params \subseteq ParamNames(pattern)
    /\ \A name \in DOMAIN params : params[name] = BindingOf(pattern, path, name)

\* C30: when a pattern of the trie accepts the path, the walk follows the
\* literals before its first parameter and returns a match from below them:
\* the result is the match of a pattern with literals at those positions,
\* never of one that has a parameter there.
C30_LiteralFirst ==
    ( /\ ret.op = "search"
      /\ ~ret.threw
      /\ ret.path \notin DOMAIN tree.staticRoutes )
    => \A i \in 1..Len(treeLog) :
           ( /\ HasParam(treeLog[i].path)
             /\ InTrie(tree, treeLog[i].path)
             /\ Accepts(treeLog[i].path, ret.path) )
           => /\ ret.result.found
              /\ \E j \in 1..Len(treeLog) :
                     /\ Yields(treeLog[j].path, ret.path, ret.result.params)
                     /\ FirstParam(treeLog[j].path) >= FirstParam(treeLog[i].path)

\* two patterns of the trie accept the path, one with a literal where the
\* other has its first parameter, and the match is the one of the literal
C30_Witness ==
    /\ ret.op = "search"
    /\ ret.result.found
    /\ \E i \in 1..Len(treeLog) : \E j \in 1..Len(treeLog) :
           /\ InTrie(tree, treeLog[i].path) /\ Accepts(treeLog[i].path, ret.path)
           /\ InTrie(tree, treeLog[j].path) /\ Accepts(treeLog[j].path, ret.path)
           /\ FirstParam(treeLog[j].path) < FirstParam(treeLog[i].path)
           /\ Yields(treeLog[i].path, ret.path, ret.result.params)
           /\ ~Yields(treeLog[j].path, ret.path, ret.result.params)

\* the literal branch returned null and a parameter child of the same node
\* gave the match
C30_WitnessFallback ==
    /\ ret.op = "search"
    /\ ret.result.found
    /\ \E i \in 1..Len(treeLog) : \E j \in 1..Len(treeLog) :
           /\ InTrie(tree, treeLog[i].path) /\ ~Accepts(treeLog[i].path, ret.path)
           /\ PathSegments(ret.path)[2] = ParsePathSegments(treeLog[i].path)[2].value
           /\ FirstParam(treeLog[j].path) < FirstParam(treeLog[i].path)
           /\ Yields(treeLog[j].path, ret.path, ret.result.params)

-----------------------------------------------------------------------------
(* Properties of the calls that only read *)

\* C29: a search leaves the trees of the router, with their static route
\* indexes, and the route cache as they are, and so does a find for the
\* trees; a step that changes the route cache is a find.
C29_SearchIsPureRead ==
    [][ /\ ret'.op = "search" => (router'.trees = router.trees /\ cache' = cache)
        /\ ret'.op = "find" => router'.trees = router.trees
        /\ cache' # cache => ret'.op = "find" ]_vars

\* a search matched in a router whose cache holds an entry
C29_Witness ==
    /\ ret.op = "search"
    /\ ret.result.found
    /\ cache.size > 0
    /\ Len(routeLog) > 0

-----------------------------------------------------------------------------
(* Properties of the results callers hold *)

\* C37: the params a find returns hold nothing a caller wrote into the
\* params of an earlier result.
C37_ResultsNotShared ==
    (ret.op = "find" /\ ret.result.found)
        => \A name \in DOMAIN ret.result.params : ret.result.params[name] # Written

-----------------------------------------------------------------------------
(* Properties of middleware *)

\* the run has started handler i (0: the final handler)
Started(i) == \E k \in 1..Len(chain.started) : chain.started[k] = i

\* C23: in a run of a route's handlers, middleware i+1 has started only if
\* middleware i called next, the final handler only if the last middleware
\* called next, and once a middleware has returned without calling next,
\* neither a later middleware nor the final handler has started.
C23_RouteMiddlewareInOrder ==
    \A i \in 1..Len(chain.mw) :
        /\ (i < Len(chain.mw) /\ Started(i + 1)) => i \in chain.calledNext
        /\ (i = Len(chain.mw) /\ Started(0)) => i \in chain.calledNext
        /\ (i \in chain.returned /\ i \notin chain.calledNext)
               => /\ ~Started(0)
                  /\ \A j \in (i + 1)..Len(chain.mw) : ~Started(j)

\* the middleware at place i of the list was invoked for the last request
Invoked(i) == \E k \in 1..Len(pipeline.invoked) : pipeline.invoked[k] = i

\* the last request got as far as place i: no middleware before it answered
\* in place of calling next
Reached(i) == pipeline.final \/ \E k \in 1..Len(pipeline.invoked) : pipeline.invoked[k] >= i

\* C24: a middleware registered as use(mw, '@method POST') is not invoked
\* for a GET request that matches a route, and is invoked for a POST request
\* that matches one and gets as far as the middleware.
C24_MethodAnnotation ==
    \A i \in 1..Len(pipeline.middlewares) :
        ( /\ pipeline.middlewares[i].handler.type = "function"
          /\ pipeline.middlewares[i].second = MethodPost
          /\ pipeline.matched )
        => /\ pipeline.method = GET => ~Invoked(i)
           /\ (pipeline.method = POST /\ Reached(i)) => Invoked(i)

ThrowsBeforeNext(i) == pipeline.middlewares[i].handler.arity # 5

RECURSIVE TimesIn(_, _)
TimesIn(s, i) ==
    IF s = <<>> THEN 0 ELSE (IF s[1] = i THEN 1 ELSE 0) + TimesIn(Tail(s), i)

\* C38: in one run of a route's handlers the final handler is started at
\* most once, whatever the middleware do with next.
C38_FinalHandlerAtMostOnce == TimesIn(chain.started, 0) <= 1

-----------------------------------------------------------------------------
(* Properties of the rate limiter *)

\* the calls for a key that called next while the clock stood at its
\* present value
PassedNow(key) ==
    IF limiter.passed[key].at = now THEN limiter.passed[key].n ELSE 0

\* the last call answered in place of calling next: with the configured
\* status, or through the custom handler when there is one
Refused ==
    /\ ~limiter.last.next
    /\ IF limiter.options.handler = "custom"
       THEN limiter.last.custom
       ELSE limiter.last.status = limiter.options.statusCode

\* at most maxRequests calls per key call next while the clock stands, and a
\* call that does not call next is refused as configured
Enforced ==
    /\ \A key \in RateKeys : PassedNow(key) <= limiter.options.maxRequests
    /\ (limiter.calls > 0 /\ ~limiter.last.next) => Refused

OneBucketPerKey ==
    \A key \in RateKeys :
        /\ limiter.buckets[key] <= 1
        /\ (key \in DOMAIN limiter.store) = (limiter.buckets[key] = 1)
        /\ PassedNow(key) <= limiter.options.maxRequests

-----------------------------------------------------------------------------
(* Properties of the object pool *)

\* C26: the pool never holds more than maxSize objects, and a release that
\* finds the pool full leaves the pooled objects as they are.
C26_PoolBounded ==
    /\ [](Len(objectPool.pool) <= objectPool.maxSize)
    /\ [][( /\ objectPool'.last.op = "release"
            /\ objectPool'.activeCount = objectPool.activeCount - 1
            /\ Len(objectPool.pool) >= objectPool.maxSize )
          => /\ objectPool'.pool = objectPool.pool
             /\ ~objectPool'.last.stored]_vars

\* objects were released into a full pool of room for some: the last one was
\* dropped
C26_Witness ==
    /\ objectPool.maxSize >= 1
    /\ Len(objectPool.pool) = objectPool.maxSize
    /\ objectPool.last.op = "release"
    /\ ~objectPool.last.stored

====
